---- MODULE Spec2Model ----
(***************************************************************************)
(* Model of the healthz probe aggregator (src/healthz/app).                *)
(*                                                                         *)
(*   main.py            perform_health_check and the four probe routes     *)
(*   checks/base.py     CheckResult, BaseChecker._create_result            *)
(*   checks/port.py     PortChecker                                        *)
(*   checks/process.py  ProcessChecker                                     *)
(*   checks/http.py     HTTPChecker (endpoint probe, response validator)   *)
(*   checks/resource.py ResourceChecker                                    *)
(*                                                                         *)
(* Wall-clock fields (timestamp, duration_ms, response_time_ms, uptime)    *)
(* are not modelled: no decision in the code reads them.                   *)
(***************************************************************************)
EXTENDS Integers, Sequences, FiniteSets, TLC

VARIABLES
    cfg,          \* the loaded configuration (main.py `config`), fixed after start-up
    env,          \* the probed environment: sockets, process table, HTTP servers, usage
    pc,           \* position of the request being served: "idle", "loop", "done"
    route,        \* the route serving the request
    check_names,  \* perform_health_check: check_names
    idx,          \* perform_health_check: position of the for loop in check_names
    results,      \* perform_health_check: results
    all_healthy,  \* perform_health_check: all_healthy
    invoked,      \* history: outcome of every checker.check() call of this run
    response,     \* perform_health_check: response
    status_code,  \* the HTTP status code the route answered with (0: none yet)
    last,         \* the last direct checker.check() call: its checker and outcome
    runs          \* the requests served at the same time: one frame of
                  \* perform_health_check's locals per request

vars == <<cfg, env, pc, route, check_names, idx, results, all_healthy, invoked,
          response, status_code, last, runs>>

reqVars == <<pc, route, check_names, idx, results, all_healthy, invoked,
             response, status_code>>

aggVars == <<reqVars, runs>>

-----------------------------------------------------------------------------
(* Bounds of the model *)

\* longest target list of a checker
MaxTargets == 2
\* longest list of check names handed to perform_health_check
MaxNames == 2

-----------------------------------------------------------------------------
(* Python values *)

\* a configuration value that is either a list or None (YAML null)
PyList(items) == [none |-> FALSE, items |-> items]
PyNone == [none |-> TRUE, items |-> <<>>]

\* outcome of a call: a returned value or a raised exception with its str()
Returned(r) == [raised |-> FALSE, result |-> r]
Raised(msg) == [raised |-> TRUE, error |-> msg]

\* StrContains matching only at the start of the haystack
StrContains_prefixOnly(haystack, needle) ==
    Len(haystack) >= Len(needle) /\ SubSeq(haystack, 1, Len(needle)) = needle

\* "needle in haystack" on Python strings
StrContains(haystack, needle) ==
    \E i \in 0..(Len(haystack) - Len(needle)) :
        SubSeq(haystack, i + 1, i + Len(needle)) = needle

\* the sequences over S of length at most n
SeqsUpTo(S, n) == UNION {[1..k -> S] : k \in 0..n}

EmptyDict == [k \in {} |-> 0]

\* d[key] = value on a Python dict
DictSet(d, key, value) ==
    [k \in DOMAIN d \cup {key} |-> IF k = key THEN value ELSE d[k]]

-----------------------------------------------------------------------------
(* checks/base.py *)

CheckResult(name, status, message, details) ==
    [name |-> name, status |-> status, message |-> message, details |-> details]

is_healthy(r) == r.status = "UP"

to_dict(r) ==
    [name |-> r.name, status |-> r.status, message |-> r.message, details |-> r.details]

_create_result(name, status, message, details) ==
    CheckResult(name, status, message, details)

-----------------------------------------------------------------------------
(* checks/port.py *)

Ports == {8080, 9090}

\* what connect_ex does on a port: 0 ("open"), an errno ("closed"), or the
\* socket call raises ("error")
PortStates == {"open", "closed", "error"}

_check_port(port, e) ==
    IF e.ports[port] = "error" THEN FALSE
    ELSE e.ports[port] = "open"

PortKey(port) == "port_" \o ToString(port)

\* PortLoop counting every target, listening or not
RECURSIVE PortLoop_countsEveryTarget(_, _, _, _, _)
PortLoop_countsEveryTarget(targets, i, e, res, success_count) ==
    IF i > Len(targets) THEN [results |-> res, success_count |-> success_count]
    ELSE LET port == targets[i]
             is_listening == _check_port(port, e)
             entry == [status |-> IF is_listening THEN "UP" ELSE "DOWN",
                       port |-> port,
                       listening |-> is_listening]
         IN PortLoop_countsEveryTarget(targets, i + 1, e,
                                       DictSet(res, PortKey(port), entry),
                                       success_count + 1)

\* the for loop of PortChecker.check over self.targets[i..]
RECURSIVE PortLoop(_, _, _, _, _)
PortLoop(targets, i, e, res, success_count) ==
    IF i > Len(targets) THEN [results |-> res, success_count |-> success_count]
    ELSE LET port == targets[i]
             is_listening == _check_port(port, e)
             entry == [status |-> IF is_listening THEN "UP" ELSE "DOWN",
                       port |-> port,
                       listening |-> is_listening]
         IN PortLoop(targets, i + 1, e, DictSet(res, PortKey(port), entry),
                     IF is_listening THEN success_count + 1 ELSE success_count)

\* PortVerdict with the "any" test in the "all" branch
PortVerdict_anyForAll(condition, success_count, n) ==
    LET overall_status == IF success_count > 0 THEN "UP" ELSE "DOWN"
    IN IF condition = "all"
       THEN [status |-> overall_status,
             message |-> IF overall_status = "UP"
                         THEN "All " \o ToString(n) \o " ports listening"
                         ELSE "Only " \o ToString(success_count) \o "/"
                              \o ToString(n) \o " ports listening"]
       ELSE [status |-> overall_status,
             message |-> IF overall_status = "UP"
                         THEN "At least one port listening ("
                              \o ToString(success_count) \o "/" \o ToString(n) \o ")"
                         ELSE "No ports listening"]

PortVerdict(condition, success_count, n) ==
    IF condition = "all"
    THEN LET overall_status == IF success_count = n THEN "UP" ELSE "DOWN"
         IN [status |-> overall_status,
             message |-> IF overall_status = "UP"
                         THEN "All " \o ToString(n) \o " ports listening"
                         ELSE "Only " \o ToString(success_count) \o "/"
                              \o ToString(n) \o " ports listening"]
    ELSE LET overall_status == IF success_count > 0 THEN "UP" ELSE "DOWN"
         IN [status |-> overall_status,
             message |-> IF overall_status = "UP"
                         THEN "At least one port listening ("
                              \o ToString(success_count) \o "/" \o ToString(n) \o ")"
                         ELSE "No ports listening"]

PortChecker_check(c, e) ==
    IF c.targets.none THEN Raised("'NoneType' object is not iterable")
    ELSE LET targets == c.targets.items
             loop == PortLoop(targets, 1, e, EmptyDict, 0)
             v == PortVerdict(c.condition, loop.success_count, Len(targets))
         IN Returned(_create_result("ports", v.status, v.message,
                [condition |-> c.condition,
                 success_count |-> loop.success_count,
                 total_count |-> Len(targets),
                 ports |-> loop.results]))

-----------------------------------------------------------------------------
(* checks/process.py *)

\* a row of psutil.process_iter(['name', 'cmdline']); psutil fills a field
\* it may not read with None, modelled by denied = TRUE
ProcPool ==
    {[name |-> "python3", cmdline |-> "python3 -m app.main", denied |-> FALSE],
     [name |-> "nginx", cmdline |-> "nginx: worker process", denied |-> FALSE],
     [name |-> "sshd", cmdline |-> "", denied |-> TRUE]}

ProcTargets == {"python", "nginx"}

ProcMatches(proc, process_name, match_type) ==
    IF match_type = "exact" THEN proc.name = process_name
    ELSE StrContains(proc.name, process_name) \/ StrContains(proc.cmdline, process_name)

\* ' '.join(None) raises TypeError, which only the outer handler catches:
\* the scan is abandoned and the target reported as not running
_check_process(process_name, match_type, e) ==
    IF \E proc \in e.procs : proc.denied
    THEN [is_running |-> FALSE, count |-> 0]
    ELSE LET count == Cardinality({proc \in e.procs :
                                      ProcMatches(proc, process_name, match_type)})
         IN [is_running |-> count > 0, count |-> count]

RECURSIVE ProcLoop(_, _, _, _, _, _)
ProcLoop(targets, i, match_type, e, res, success_count) ==
    IF i > Len(targets) THEN [results |-> res, success_count |-> success_count]
    ELSE LET process_name == targets[i]
             r == _check_process(process_name, match_type, e)
             entry == [status |-> IF r.is_running THEN "UP" ELSE "DOWN",
                       running |-> r.is_running,
                       count |-> r.count]
         IN ProcLoop(targets, i + 1, match_type, e,
                     DictSet(res, process_name, entry),
                     IF r.is_running THEN success_count + 1 ELSE success_count)

\* ProcVerdict applying the "any" rule only to the condition "any"
ProcVerdict_unknownAsAll(condition, success_count, n) ==
    IF condition # "any"
    THEN LET overall_status == IF success_count = n THEN "UP" ELSE "DOWN"
         IN [status |-> overall_status,
             message |-> IF overall_status = "UP"
                         THEN "All " \o ToString(n) \o " processes running"
                         ELSE "Only " \o ToString(success_count) \o "/"
                              \o ToString(n) \o " processes running"]
    ELSE LET overall_status == IF success_count > 0 THEN "UP" ELSE "DOWN"
         IN [status |-> overall_status,
             message |-> IF overall_status = "UP"
                         THEN "At least one process running ("
                              \o ToString(success_count) \o "/" \o ToString(n) \o ")"
                         ELSE "No processes running"]

\* ProcVerdict with the "all" test in the "any" branch
ProcVerdict_allForAny(condition, success_count, n) ==
    LET overall_status == IF success_count = n THEN "UP" ELSE "DOWN"
    IN IF condition = "all"
       THEN [status |-> overall_status,
             message |-> IF overall_status = "UP"
                         THEN "All " \o ToString(n) \o " processes running"
                         ELSE "Only " \o ToString(success_count) \o "/"
                              \o ToString(n) \o " processes running"]
       ELSE [status |-> overall_status,
             message |-> IF overall_status = "UP"
                         THEN "At least one process running ("
                              \o ToString(success_count) \o "/" \o ToString(n) \o ")"
                         ELSE "No processes running"]

ProcVerdict(condition, success_count, n) ==
    IF condition = "all"
    THEN LET overall_status == IF success_count = n THEN "UP" ELSE "DOWN"
         IN [status |-> overall_status,
             message |-> IF overall_status = "UP"
                         THEN "All " \o ToString(n) \o " processes running"
                         ELSE "Only " \o ToString(success_count) \o "/"
                              \o ToString(n) \o " processes running"]
    ELSE LET overall_status == IF success_count > 0 THEN "UP" ELSE "DOWN"
         IN [status |-> overall_status,
             message |-> IF overall_status = "UP"
                         THEN "At least one process running ("
                              \o ToString(success_count) \o "/" \o ToString(n) \o ")"
                         ELSE "No processes running"]

ProcessChecker_check(c, e) ==
    IF c.targets.none THEN Raised("'NoneType' object is not iterable")
    ELSE LET targets == c.targets.items
             loop == ProcLoop(targets, 1, c.match_type, e, EmptyDict, 0)
             v == ProcVerdict(c.condition, loop.success_count, Len(targets))
         IN Returned(_create_result("processes", v.status, v.message,
                [condition |-> c.condition,
                 match_type |-> c.match_type,
                 success_count |-> loop.success_count,
                 total_count |-> Len(targets),
                 processes |-> loop.results]))

-----------------------------------------------------------------------------
(* Values of parsed JSON documents and of the YAML validation specs *)

PyNull == [t |-> "null", n |-> 0, s |-> "", m |-> EmptyDict]
PyNum(n) == [t |-> "num", n |-> n, s |-> "", m |-> EmptyDict]
PyBool(b) == [t |-> "bool", n |-> IF b THEN 1 ELSE 0, s |-> "", m |-> EmptyDict]
PyStr(s) == [t |-> "str", n |-> 0, s |-> s, m |-> EmptyDict]
PyMap(m) == [t |-> "map", n |-> 0, s |-> "", m |-> m]

IsNumeric(v) == v.t \in {"num", "bool"}

\* Python ==: bool is an int (True == 1), other types are equal only to their own
RECURSIVE PyEq(_, _)
PyEq(a, b) ==
    IF IsNumeric(a) /\ IsNumeric(b) THEN a.n = b.n
    ELSE IF a.t # b.t THEN FALSE
    ELSE IF a.t = "str" THEN a.s = b.s
    ELSE IF a.t = "null" THEN TRUE
    ELSE /\ DOMAIN a.m = DOMAIN b.m
         /\ \A k \in DOMAIN a.m : PyEq(a.m[k], b.m[k])

\* code points of the characters the model's strings are made of, ascending
Alphabet == " \"',-./0123456789:ABCDEFGHIJKLMNOPQRSTUVWXYZ_abcdefghijklmnopqrstuvwxyz{}"

Ord(c) == CHOOSE i \in 1..Len(Alphabet) : SubSeq(Alphabet, i, i) = c

\* Python < on str: lexicographic by code point
RECURSIVE StrLess(_, _)
StrLess(a, b) ==
    IF Len(b) = 0 THEN FALSE
    ELSE IF Len(a) = 0 THEN TRUE
    ELSE LET ca == Ord(SubSeq(a, 1, 1))
             cb == Ord(SubSeq(b, 1, 1))
         IN IF ca # cb THEN ca < cb
            ELSE StrLess(SubSeq(a, 2, Len(a)), SubSeq(b, 2, Len(b)))

\* PyLess with <= in place of < on numbers
PyLess_orEqual(a, b) ==
    IF IsNumeric(a) /\ IsNumeric(b) THEN [raised |-> FALSE, result |-> a.n <= b.n]
    ELSE IF a.t = "str" /\ b.t = "str"
    THEN [raised |-> FALSE, result |-> StrLess(a.s, b.s)]
    ELSE [raised |-> TRUE, error |-> "TypeError"]

\* Python < between two values: a boolean, or "TypeError" when the types
\* do not support the ordering
PyLess(a, b) ==
    IF IsNumeric(a) /\ IsNumeric(b) THEN Returned(a.n < b.n)
    ELSE IF a.t = "str" /\ b.t = "str" THEN Returned(StrLess(a.s, b.s))
    ELSE Raised("TypeError")

\* str(value) as the f-strings of http.py render it
RECURSIVE PyRepr(_)
PyToStr(v) ==
    IF v.t = "str" THEN v.s
    ELSE IF v.t = "num" THEN ToString(v.n)
    ELSE IF v.t = "bool" THEN (IF v.n = 1 THEN "True" ELSE "False")
    ELSE IF v.t = "null" THEN "None"
    ELSE PyRepr(v)

\* the keys of a dict as a sequence, in ascending order
RECURSIVE KeySeq(_)
KeySeq(K) ==
    IF K = {} THEN <<>>
    ELSE LET k == CHOOSE x \in K : \A y \in K \ {x} : StrLess(x, y)
         IN <<k>> \o KeySeq(K \ {k})

RECURSIVE ReprItems(_, _, _)
ReprItems(m, keys, i) ==
    IF i > Len(keys) THEN ""
    ELSE (IF i > 1 THEN ", " ELSE "")
         \o "'" \o keys[i] \o "': " \o PyRepr(m[keys[i]])
         \o ReprItems(m, keys, i + 1)

PyRepr(v) ==
    IF v.t = "str" THEN "'" \o v.s \o "'"
    ELSE IF v.t = "map" THEN "{" \o ReprItems(v.m, KeySeq(DOMAIN v.m), 1) \o "}"
    ELSE PyToStr(v)

-----------------------------------------------------------------------------
(* checks/http.py: ValueComparator and NestedFieldResolver *)

Operators == {"equals", "greater_than", "less_than", "greater_equal", "less_equal"}

\* _compare_values answering False for an operator it does not know
_compare_values_unknownFalse(actual, expected, operator) ==
    IF operator = "equals" THEN PyEq(actual, expected)
    ELSE IF operator = "greater_than"
    THEN LET r == PyLess(expected, actual) IN IF r.raised THEN FALSE ELSE r.result
    ELSE IF operator = "less_than"
    THEN LET r == PyLess(actual, expected) IN IF r.raised THEN FALSE ELSE r.result
    ELSE IF operator = "greater_equal"
    THEN LET r == PyLess(actual, expected) IN IF r.raised THEN FALSE ELSE ~r.result
    ELSE IF operator = "less_equal"
    THEN LET r == PyLess(expected, actual) IN IF r.raised THEN FALSE ELSE ~r.result
    ELSE FALSE

_compare_values(actual, expected, operator) ==
    IF operator = "equals" THEN PyEq(actual, expected)
    ELSE IF operator = "greater_than"
    THEN LET r == PyLess(expected, actual) IN IF r.raised THEN FALSE ELSE r.result
    ELSE IF operator = "less_than"
    THEN LET r == PyLess(actual, expected) IN IF r.raised THEN FALSE ELSE r.result
    ELSE IF operator = "greater_equal"
    THEN LET r == PyLess(actual, expected) IN IF r.raised THEN FALSE ELSE ~r.result
    ELSE IF operator = "less_equal"
    THEN LET r == PyLess(expected, actual) IN IF r.raised THEN FALSE ELSE ~r.result
    ELSE PyEq(actual, expected)

\* field_path.split('.')
RECURSIVE SplitDots(_, _)
SplitDots(path, acc) ==
    IF Len(path) = 0 THEN <<acc>>
    ELSE IF SubSeq(path, 1, 1) = "."
    THEN <<acc>> \o SplitDots(SubSeq(path, 2, Len(path)), "")
    ELSE SplitDots(SubSeq(path, 2, Len(path)), acc \o SubSeq(path, 1, 1))

\* NestedWalk answering an empty mapping for a segment that is missing
RECURSIVE NestedWalk_missingAsEmpty(_, _, _)
NestedWalk_missingAsEmpty(value, keys, i) ==
    IF i > Len(keys) THEN value
    ELSE IF value.t = "map" /\ keys[i] \in DOMAIN value.m
    THEN NestedWalk_missingAsEmpty(value.m[keys[i]], keys, i + 1)
    ELSE PyMap(EmptyDict)

\* NestedWalk leaving the loop with the value reached so far
RECURSIVE NestedWalk_keepsValue(_, _, _)
NestedWalk_keepsValue(value, keys, i) ==
    IF i > Len(keys) THEN value
    ELSE IF value.t = "map" /\ keys[i] \in DOMAIN value.m
    THEN NestedWalk_keepsValue(value.m[keys[i]], keys, i + 1)
    ELSE value

RECURSIVE NestedWalk(_, _, _)
NestedWalk(value, keys, i) ==
    IF i > Len(keys) THEN value
    ELSE IF value.t = "map" /\ keys[i] \in DOMAIN value.m
    THEN NestedWalk(value.m[keys[i]], keys, i + 1)
    ELSE PyNull

\* _get_nested_value looking the whole path up as one key
_get_nested_value_noSplit(data, field_path) == NestedWalk(data, <<field_path>>, 1)

_get_nested_value(data, field_path) == NestedWalk(data, SplitDots(field_path, ""), 1)

-----------------------------------------------------------------------------
(* The HTTP client and the body parsers consumed by checks/http.py *)

\* d.get(key, default) on a Python dict
DictGet(d, key, default) == IF key \in DOMAIN d THEN d[key] ELSE default

\* an optional value: result.get(key) is None when the key is absent
Some(v) == [none |-> FALSE, v |-> v]
None == [none |-> TRUE]
OptGet(d, key) == IF key \in DOMAIN d THEN Some(d[key]) ELSE None

UpperChars == "ABCDEFGHIJKLMNOPQRSTUVWXYZ"
LowerChars == "abcdefghijklmnopqrstuvwxyz"

MapChar(c, from, to) ==
    IF \E i \in 1..Len(from) : SubSeq(from, i, i) = c
    THEN LET i == CHOOSE j \in 1..Len(from) : SubSeq(from, j, j) = c
         IN SubSeq(to, i, i)
    ELSE c

RECURSIVE MapChars(_, _, _)
MapChars(s, from, to) ==
    IF Len(s) = 0 THEN ""
    ELSE MapChar(SubSeq(s, 1, 1), from, to) \o MapChars(SubSeq(s, 2, Len(s)), from, to)

\* str.lower() and str.upper()
Lower(s) == MapChars(s, UpperChars, LowerChars)
Upper(s) == MapChars(s, LowerChars, UpperChars)

StartsWith(s, prefix) ==
    Len(s) >= Len(prefix) /\ SubSeq(s, 1, Len(prefix)) = prefix

\* the exception classes requests.request raises, with the classes each is
\* an instance of (requests.exceptions); "ValueError" stands for any
\* exception that is not a RequestException
ExceptionBases ==
    [SSLError |-> {"SSLError", "ConnectionError", "RequestException"},
     ConnectTimeout |-> {"ConnectTimeout", "ConnectionError", "Timeout", "RequestException"},
     ReadTimeout |-> {"ReadTimeout", "Timeout", "RequestException"},
     ConnectionError |-> {"ConnectionError", "RequestException"},
     TooManyRedirects |-> {"TooManyRedirects", "RequestException"},
     ValueError |-> {"ValueError"}]

ExceptionClasses == DOMAIN ExceptionBases

\* isinstance matching the class of the exception only, not its base classes
isinstance_exactClass(cls, base) == cls = base

isinstance(cls, base) == base \in ExceptionBases[cls]

\* json.dumps of a value: the text a server sends for that document
RECURSIVE JsonDumps(_)
RECURSIVE JsonItems(_, _, _)
JsonItems(m, keys, i) ==
    IF i > Len(keys) THEN ""
    ELSE (IF i > 1 THEN ", " ELSE "")
         \o "\"" \o keys[i] \o "\": " \o JsonDumps(m[keys[i]])
         \o JsonItems(m, keys, i + 1)

JsonDumps(v) ==
    IF v.t = "str" THEN "\"" \o v.s \o "\""
    ELSE IF v.t = "num" THEN ToString(v.n)
    ELSE IF v.t = "bool" THEN (IF v.n = 1 THEN "true" ELSE "false")
    ELSE IF v.t = "null" THEN "null"
    ELSE "{" \o JsonItems(v.m, KeySeq(DOMAIN v.m), 1) \o "}"

JsonScalars == {PyNull, PyBool(TRUE), PyNum(3), PyNum(10), PyStr("ok")}

JsonKeys == {"status", "count"}

\* the JSON documents the modelled servers answer with
JsonDocs ==
    JsonScalars
    \cup {PyMap(m) : m \in UNION {[K -> JsonScalars] : K \in SUBSET JsonKeys}}
    \cup {PyMap([a |-> PyMap([b |-> PyNum(1)])]), PyMap([a |-> PyNum(1)]),
          PyMap([a |-> PyMap([b |-> PyMap([status |-> PyStr("ok")])])])}

\* response.json(): the document whose text this is, or a JSONDecodeError
JsonLoads(text) ==
    IF \E d \in JsonDocs : JsonDumps(d) = text
    THEN Returned(CHOOSE d \in JsonDocs : JsonDumps(d) = text)
    ELSE Raised("Expecting value: line 1 column 1 (char 0)")

Numerals == {0, 3, 5, 10, 42}

\* float(text): the number whose numeral this is, or a ValueError
PyFloat(text) ==
    IF \E n \in Numerals : ToString(n) = text
    THEN Returned(CHOOSE n \in Numerals : ToString(n) = text)
    ELSE Raised("could not convert string to float: '" \o text \o "'")

\* str(x) of a float holding a whole number
FloatStr(n) == ToString(n) \o ".0"

-----------------------------------------------------------------------------
(* checks/http.py: ResponseValidator *)

FieldError(field, expected_value, operator, actual_value) ==
    "Field '" \o field \o "': expected " \o PyToStr(expected_value)
    \o " (" \o operator \o "), got " \o PyToStr(actual_value)

\* ChecksLoop returning valid as soon as one check has passed
ChecksLoop_firstOnly(response_json, checks, i) ==
    IF i > Len(checks) THEN Returned([valid |-> TRUE])
    ELSE LET check == checks[i]
             field == OptGet(check, "field")
             expected_value == DictGet(check, "value", PyNull)
             operator == DictGet(check, "operator", "equals")
         IN IF field.none
            THEN Raised("'NoneType' object has no attribute 'split'")
            ELSE LET actual_value == _get_nested_value(response_json, field.v)
                 IN IF ~_compare_values(actual_value, expected_value, operator)
                    THEN Returned([valid |-> FALSE,
                                   error |-> FieldError(field.v, expected_value,
                                                        operator, actual_value),
                                   expected |-> expected_value,
                                   actual |-> actual_value])
                    ELSE Returned([valid |-> TRUE])

\* the for loop over expected['checks'], from check i on
RECURSIVE ChecksLoop(_, _, _)
ChecksLoop(response_json, checks, i) ==
    IF i > Len(checks) THEN Returned([valid |-> TRUE])
    ELSE LET check == checks[i]
             field == OptGet(check, "field")
             expected_value == DictGet(check, "value", PyNull)
             operator == DictGet(check, "operator", "equals")
         IN IF field.none
            THEN Raised("'NoneType' object has no attribute 'split'")
            ELSE LET actual_value == _get_nested_value(response_json, field.v)
                 IN IF ~_compare_values(actual_value, expected_value, operator)
                    THEN Returned([valid |-> FALSE,
                                   error |-> FieldError(field.v, expected_value,
                                                        operator, actual_value),
                                   expected |-> expected_value,
                                   actual |-> actual_value])
                    ELSE ChecksLoop(response_json, checks, i + 1)

_validate_json_response(resp, expected) ==
    LET parsed == JsonLoads(resp.text)
    IN IF parsed.raised
       THEN Returned([valid |-> FALSE,
                      error |-> "Invalid JSON response: " \o parsed.error])
       ELSE IF "checks" \in DOMAIN expected
       THEN ChecksLoop(parsed.result, expected.checks, 1)
       ELSE IF "field" \in DOMAIN expected
       THEN IF "value" \notin DOMAIN expected THEN Raised("'value'")
            ELSE LET field == expected.field
                     expected_value == expected.value
                     operator == DictGet(expected, "operator", "equals")
                     actual_value == _get_nested_value(parsed.result, field)
                 IN IF ~_compare_values(actual_value, expected_value, operator)
                    THEN Returned([valid |-> FALSE,
                                   error |-> FieldError(field, expected_value,
                                                        operator, actual_value),
                                   expected |-> expected_value,
                                   actual |-> actual_value])
                    ELSE Returned([valid |-> TRUE])
       ELSE Returned([valid |-> TRUE])

\* response_text[:100]
Truncate100(text) == IF Len(text) > 100 THEN SubSeq(text, 1, 100) ELSE text

_validate_string_response(resp, expected) ==
    LET response_text == resp.text
    IN IF "equals" \in DOMAIN expected
       THEN LET expected_text == PyToStr(expected.equals)
            IN IF response_text = expected_text THEN Returned([valid |-> TRUE])
               ELSE Returned([valid |-> FALSE,
                              error |-> "Response mismatch: expected '" \o expected_text
                                        \o "', got '" \o response_text \o "'",
                              expected |-> expected_text,
                              actual |-> response_text])
       ELSE IF "contains" \in DOMAIN expected
       THEN LET expected_substring == PyToStr(expected.contains)
            IN IF StrContains(response_text, expected_substring)
               THEN Returned([valid |-> TRUE])
               ELSE Returned([valid |-> FALSE,
                              error |-> "Response does not contain '"
                                        \o expected_substring \o "'",
                              expected |-> "Contains '" \o expected_substring \o "'",
                              actual |-> Truncate100(response_text)])
       ELSE Returned([valid |-> TRUE])

\* float(expected['value']) on a YAML value
FloatOfValue(v) ==
    IF IsNumeric(v) THEN Returned(v.n)
    ELSE IF v.t = "str" THEN PyFloat(v.s)
    ELSE Raised("float() argument must be a string or a real number")

_validate_number_response(resp, expected) ==
    LET response_number == PyFloat(resp.text)
    IN IF response_number.raised
       THEN Returned([valid |-> FALSE,
                      error |-> "Invalid number response: " \o response_number.error])
       ELSE IF "value" \notin DOMAIN expected THEN Raised("'value'")
       ELSE LET expected_value == FloatOfValue(expected.value)
                operator == DictGet(expected, "operator", "equals")
            IN IF expected_value.raised
               THEN IF expected.value.t = "str"
                    THEN Returned([valid |-> FALSE,
                                   error |-> "Invalid number response: "
                                             \o expected_value.error])
                    ELSE Raised(expected_value.error)
               ELSE IF _compare_values(PyNum(response_number.result),
                                       PyNum(expected_value.result), operator)
               THEN Returned([valid |-> TRUE])
               ELSE Returned([valid |-> FALSE,
                              error |-> "Number check failed: "
                                        \o FloatStr(response_number.result) \o " "
                                        \o operator \o " "
                                        \o FloatStr(expected_value.result),
                              expected |-> expected_value.result,
                              actual |-> response_number.result])

\* _validate_response falling back to the string validator for any other type
_validate_response_defaultString(resp, expected) ==
    LET response_type == Lower(DictGet(expected, "type", "string"))
        r == IF response_type = "json" THEN _validate_json_response(resp, expected)
             ELSE IF response_type = "number"
             THEN _validate_number_response(resp, expected)
             ELSE _validate_string_response(resp, expected)
    IN IF r.raised
       THEN [valid |-> FALSE, error |-> "Response validation error: " \o r.error]
       ELSE r.result

_validate_response(resp, expected) ==
    LET response_type == Lower(DictGet(expected, "type", "string"))
        r == IF response_type = "json" THEN _validate_json_response(resp, expected)
             ELSE IF response_type \in {"string", "text"}
             THEN _validate_string_response(resp, expected)
             ELSE IF response_type = "number"
             THEN _validate_number_response(resp, expected)
             ELSE Returned([valid |-> FALSE,
                            error |-> "Unsupported response type: " \o response_type])
    IN IF r.raised
       THEN [valid |-> FALSE, error |-> "Response validation error: " \o r.error]
       ELSE r.result

-----------------------------------------------------------------------------
(* checks/http.py: EndpointProbe and HTTPChecker *)

\* what requests.request does for a URL: a response, or an exception of a class
HttpResponse(status, text) == [raised |-> FALSE, status_code |-> status, text |-> text]
HttpRaise(cls) == [raised |-> TRUE, cls |-> cls, error |-> cls \o " raised"]

_build_full_url(url, scheme) ==
    IF url.none THEN Raised("'NoneType' object has no attribute 'startswith'")
    ELSE IF StartsWith(url.v, "http://") \/ StartsWith(url.v, "https://")
    THEN Returned(url.v)
    ELSE Returned(scheme \o "://" \o url.v)

\* Truthy testing the wrong way round: validation only for an empty spec
Truthy_inverted(expected_response) ==
    ~expected_response.none /\ DOMAIN expected_response.v = {}

\* truth value of target.get('expected_response'): None and {} are false
Truthy(expected_response) ==
    ~expected_response.none /\ DOMAIN expected_response.v # {}

\* StatusMatches accepting every non-error status code
StatusMatches_anySuccess(status, expected_status) == status < 400

\* status_healthy = response.status_code == expected_status
StatusMatches(status, expected_status) == status = expected_status

\* lines 209-219: the validation result is stored and a rejection makes the
\* probe unhealthy with the validator's error
WithValidation(result, validation_result) ==
    IF ~validation_result.valid
    THEN [healthy |-> FALSE,
          status_code |-> result.status_code,
          expected_status |-> result.expected_status,
          response_validation |-> validation_result,
          error |-> validation_result.error]
    ELSE DictSet(result, "response_validation", validation_result)

\* lines 196-200: the early return on a status code mismatch
StatusMismatch(result) ==
    DictSet(result, "error",
            "Status code mismatch: expected " \o ToString(result.expected_status)
            \o ", got " \o ToString(result.status_code))

_check_endpoint(url, method, timeout, expected_status, verify_ssl, expected_response, e) ==
    LET outcome == e.http[url]
    IN IF outcome.raised
       THEN IF isinstance(outcome.cls, "SSLError")
            THEN [healthy |-> FALSE,
                  error |-> "SSL certificate error: " \o outcome.error]
            ELSE IF isinstance(outcome.cls, "Timeout")
            THEN [healthy |-> FALSE,
                  error |-> "Request timeout after " \o ToString(timeout) \o "s"]
            ELSE IF isinstance(outcome.cls, "ConnectionError")
            THEN [healthy |-> FALSE,
                  error |-> "Connection error: " \o outcome.error]
            ELSE IF isinstance(outcome.cls, "RequestException")
            THEN [healthy |-> FALSE,
                  error |-> "Request error: " \o outcome.error]
            ELSE [healthy |-> FALSE,
                  error |-> "Unexpected error: " \o outcome.error]
       ELSE LET status_healthy == StatusMatches(outcome.status_code, expected_status)
                result == [healthy |-> status_healthy,
                           status_code |-> outcome.status_code,
                           expected_status |-> expected_status]
            IN IF ~status_healthy THEN StatusMismatch(result)
               ELSE IF Truthy(expected_response)
               THEN WithValidation(result,
                                   _validate_response(outcome, expected_response.v))
               ELSE result

\* lines 96-105: the entry of details_list for a probed target
ProbeEntry(full_url, scheme, method, result) ==
    [full_url |-> full_url,
     result |-> result,
     detail |-> [url |-> full_url,
                 scheme |-> scheme,
                 method |-> method,
                 healthy |-> result.healthy,
                 status_code |-> OptGet(result, "status_code"),
                 error |-> OptGet(result, "error"),
                 response_validation |-> OptGet(result, "response_validation")]]

\* one iteration of the for loop of HTTPChecker.check: the probe of a target
\* and its entry of details_list, or the exception the iteration raises
ProbeTarget(target, e) ==
    LET url == OptGet(target, "url")
        scheme == Lower(DictGet(target, "scheme", "http"))
        method == Upper(DictGet(target, "method", "GET"))
        timeout == DictGet(target, "timeout", 5)
        expected_status == DictGet(target, "expected_status", 200)
        verify_ssl == DictGet(target, "verify_ssl", TRUE)
        expected_response == OptGet(target, "expected_response")
        full_url == _build_full_url(url, scheme)
    IN IF full_url.raised THEN full_url
       ELSE Returned(ProbeEntry(full_url.result, scheme, method,
                    _check_endpoint(full_url.result, method, timeout,
                        expected_status, verify_ssl, expected_response, e)))

RECURSIVE HttpLoop(_, _, _, _, _, _)
\* HttpLoopStep leaving the loop at the first unhealthy endpoint
HttpLoopStep_stopsOnUnhealthy(targets, i, e, healthy_endpoints, unhealthy_endpoints, details_list, p) ==
    IF p.raised THEN p
    ELSE IF ~p.result.result.healthy
    THEN Returned([healthy |-> healthy_endpoints,
                   unhealthy |-> Append(unhealthy_endpoints, p.result.full_url),
                   details |-> Append(details_list, p.result.detail)])
    ELSE HttpLoop(targets, i + 1, e,
            Append(healthy_endpoints, p.result.full_url),
            unhealthy_endpoints,
            Append(details_list, p.result.detail))

\* lines 79-105: the probed target p is classified and the loop goes on
HttpLoopStep(targets, i, e, healthy_endpoints, unhealthy_endpoints, details_list, p) ==
    IF p.raised THEN p
    ELSE HttpLoop(targets, i + 1, e,
            IF p.result.result.healthy
            THEN Append(healthy_endpoints, p.result.full_url)
            ELSE healthy_endpoints,
            IF p.result.result.healthy
            THEN unhealthy_endpoints
            ELSE Append(unhealthy_endpoints, p.result.full_url),
            Append(details_list, p.result.detail))

HttpLoop(targets, i, e, healthy_endpoints, unhealthy_endpoints, details_list) ==
    IF i > Len(targets)
    THEN Returned([healthy |-> healthy_endpoints,
                   unhealthy |-> unhealthy_endpoints,
                   details |-> details_list])
    ELSE HttpLoopStep(targets, i, e, healthy_endpoints, unhealthy_endpoints,
                      details_list, ProbeTarget(targets[i], e))

\* CheckResult(healthy, message, details): the three positional arguments
\* land in the fields name, status and message; details keeps its default {}
HttpVerdict(targets, loop) ==
    IF loop.raised THEN loop
    ELSE LET healthy == Len(loop.result.unhealthy) = 0
             message == ToString(Len(loop.result.healthy)) \o "/"
                        \o ToString(Len(targets)) \o " endpoints healthy"
         IN Returned(CheckResult(healthy, message, loop.result, EmptyDict))

HTTPChecker_check(c, e) ==
    IF c.targets.none \/ Len(c.targets.items) = 0
    THEN Returned(CheckResult(TRUE, "No HTTP endpoints configured to check",
                              EmptyDict, EmptyDict))
    ELSE HttpVerdict(c.targets.items, HttpLoop(c.targets.items, 1, e, <<>>, <<>>, <<>>))

-----------------------------------------------------------------------------
(* checks/resource.py *)

\* a sample of psutil: a percentage, or the call raises
Sample(percent) == [raised |-> FALSE, percent |-> percent]
SampleError == [raised |-> TRUE, error |-> "psutil error"]

_check_cpu(c, e) ==
    LET threshold == DictGet(c.cpu, "threshold_percent", 90)
    IN IF e.cpu.raised THEN [status |-> "DOWN", error |-> e.cpu.error]
       ELSE LET is_ok == e.cpu.percent < threshold
            IN [status |-> IF is_ok THEN "UP" ELSE "DOWN",
                usage_percent |-> e.cpu.percent,
                threshold |-> threshold]

\* _check_memory passing a sample that equals the threshold
_check_memory_orEqual(c, e) ==
    LET threshold == DictGet(c.memory, "threshold_percent", 90)
    IN IF e.memory.raised THEN [status |-> "DOWN", error |-> e.memory.error]
       ELSE LET is_ok == e.memory.percent <= threshold
            IN [status |-> IF is_ok THEN "UP" ELSE "DOWN",
                usage_percent |-> e.memory.percent,
                threshold |-> threshold]

_check_memory(c, e) ==
    LET threshold == DictGet(c.memory, "threshold_percent", 90)
    IN IF e.memory.raised THEN [status |-> "DOWN", error |-> e.memory.error]
       ELSE LET is_ok == e.memory.percent < threshold
            IN [status |-> IF is_ok THEN "UP" ELSE "DOWN",
                usage_percent |-> e.memory.percent,
                threshold |-> threshold]

RECURSIVE DiskLoop(_, _, _, _, _, _)
DiskLoop(paths, i, threshold, e, res, all_ok) ==
    IF i > Len(paths)
    THEN [status |-> IF all_ok THEN "UP" ELSE "DOWN", paths |-> res]
    ELSE LET path == paths[i]
             disk == e.disk[path]
         IN IF disk.raised
            THEN DiskLoop(paths, i + 1, threshold, e,
                          DictSet(res, path, [status |-> "DOWN", error |-> disk.error]),
                          FALSE)
            ELSE LET is_ok == disk.percent < threshold
                 IN DiskLoop(paths, i + 1, threshold, e,
                        DictSet(res, path,
                                [status |-> IF is_ok THEN "UP" ELSE "DOWN",
                                 usage_percent |-> disk.percent,
                                 threshold |-> threshold]),
                        all_ok /\ is_ok)

_check_disk(c, e) ==
    DiskLoop(DictGet(c.disk, "paths", <<"/">>), 1,
             DictGet(c.disk, "threshold_percent", 85), e, EmptyDict, TRUE)

\* ResourceChecker.check leaving the disk verdict out of the overall status
ResourceChecker_check_diskIgnored(c, e) ==
    IF c.cpu_none THEN Raised("'NoneType' object has no attribute 'get'")
    ELSE LET cpu_on == DictGet(c.cpu, "enabled", FALSE)
             memory_on == DictGet(c.memory, "enabled", TRUE)
             disk_on == DictGet(c.disk, "enabled", TRUE)
             cpu_result == _check_cpu(c, e)
             memory_result == _check_memory(c, e)
             disk_result == _check_disk(c, e)
             r1 == IF cpu_on THEN DictSet(EmptyDict, "cpu", cpu_result) ELSE EmptyDict
             r2 == IF memory_on THEN DictSet(r1, "memory", memory_result) ELSE r1
             r3 == IF disk_on THEN DictSet(r2, "disk", disk_result) ELSE r2
             overall_ok == /\ (cpu_on => cpu_result.status # "DOWN")
                           /\ (memory_on => memory_result.status # "DOWN")
         IN Returned(_create_result("resources",
                IF overall_ok THEN "UP" ELSE "DOWN",
                IF overall_ok THEN "All resources within thresholds"
                ELSE "Some resources exceeded thresholds",
                r3))

ResourceChecker_check(c, e) ==
    IF c.cpu_none THEN Raised("'NoneType' object has no attribute 'get'")
    ELSE LET cpu_on == DictGet(c.cpu, "enabled", FALSE)
             memory_on == DictGet(c.memory, "enabled", TRUE)
             disk_on == DictGet(c.disk, "enabled", TRUE)
             cpu_result == _check_cpu(c, e)
             memory_result == _check_memory(c, e)
             disk_result == _check_disk(c, e)
             r1 == IF cpu_on THEN DictSet(EmptyDict, "cpu", cpu_result) ELSE EmptyDict
             r2 == IF memory_on THEN DictSet(r1, "memory", memory_result) ELSE r1
             r3 == IF disk_on THEN DictSet(r2, "disk", disk_result) ELSE r2
             overall_ok == /\ (cpu_on => cpu_result.status # "DOWN")
                           /\ (memory_on => memory_result.status # "DOWN")
                           /\ (disk_on => disk_result.status # "DOWN")
         IN Returned(_create_result("resources",
                IF overall_ok THEN "UP" ELSE "DOWN",
                IF overall_ok THEN "All resources within thresholds"
                ELSE "Some resources exceeded thresholds",
                r3))

-----------------------------------------------------------------------------
(* main.py: the checker registry *)

CheckerNames == <<"ports", "processes", "http", "resources">>

\* a check name no checker is ever registered under
UnknownName == "custom"

\* IsRegistered registering every checker, enabled or not
IsRegistered_everyChecker(c, name) ==
    name \in {"ports", "processes", "http", "resources"}

\* lines 99-119: which checkers the start-up code registers, in insertion order
IsRegistered(c, name) ==
    IF name = "ports" THEN c.ports.enabled
    ELSE IF name = "processes" THEN c.processes.enabled
    ELSE IF name = "http" THEN c.http.enabled
    ELSE IF name = "resources" THEN ~c.resources.empty
    ELSE FALSE

checkers_keys(c) == SelectSeq(CheckerNames, LAMBDA n : IsRegistered(c, n))

\* checker.check() of the checker registered under name; "http" is the
\* HTTPChecker of checks/http.py, built with the name "http" and the
\* checks.http section (main.py and checks/__init__.py spell the class
\* HttpChecker and pass the section alone)
checker_check(c, name, e) ==
    IF name = "ports" THEN PortChecker_check(c.ports, e)
    ELSE IF name = "processes" THEN ProcessChecker_check(c.processes, e)
    ELSE IF name = "http" THEN HTTPChecker_check(c.http, e)
    ELSE ResourceChecker_check(c.resources, e)

-----------------------------------------------------------------------------
(* main.py: perform_health_check and the probe routes *)

Routes == {"/health", "/healthz", "/livez", "/readyz"}

\* the check_names a route hands to perform_health_check
RouteCheckNames(c, r) ==
    IF r = "/livez" THEN c.probes.liveness
    ELSE IF r = "/readyz" THEN c.probes.readiness
    ELSE checkers_keys(c)

\* TryCheck without the "if not result.is_healthy()" update
TryCheck_ignoresDown(check_name, outcome, res, healthy) ==
    IF ~outcome.raised
    THEN [results |-> DictSet(res, check_name, to_dict(outcome.result)),
          all_healthy |-> healthy,
          escaped |-> FALSE]
    ELSE [results |-> DictSet(res, check_name,
                        [name |-> check_name,
                         status |-> "DOWN",
                         message |-> "Check failed: " \o outcome.error,
                         error |-> outcome.error]),
          all_healthy |-> FALSE,
          escaped |-> FALSE]

\* TryCheck without the except clause: the exception leaves the function
TryCheck_noExcept(check_name, outcome, res, healthy) ==
    IF ~outcome.raised
    THEN [results |-> DictSet(res, check_name, to_dict(outcome.result)),
          all_healthy |-> healthy /\ is_healthy(outcome.result),
          escaped |-> FALSE]
    ELSE [results |-> res, all_healthy |-> healthy, escaped |-> TRUE]

\* lines 146-159: the try/except around one checker.check() call
TryCheck(check_name, outcome, res, healthy) ==
    IF ~outcome.raised
    THEN [results |-> DictSet(res, check_name, to_dict(outcome.result)),
          all_healthy |-> healthy /\ is_healthy(outcome.result),
          escaped |-> FALSE]
    ELSE [results |-> DictSet(res, check_name,
                        [name |-> check_name,
                         status |-> "DOWN",
                         message |-> "Check failed: " \o outcome.error,
                         error |-> outcome.error]),
          all_healthy |-> FALSE,
          escaped |-> FALSE]

\* lines 161-174: the report
BuildResponse(healthy, res) ==
    [status |-> IF healthy THEN "UP" ELSE "DOWN", checks |-> res]

\* StatusCode answering an unhealthy verdict with 500
StatusCode_500(healthy) == IF healthy THEN 200 ELSE 500

\* status_code = 200 if is_healthy else 503
StatusCode(healthy) == IF healthy THEN 200 ELSE 503

\* a request arrives on a route: perform_health_check starts
StartRequest ==
    /\ pc \in {"idle", "done"}
    /\ \E r \in Routes :
        /\ route' = r
        /\ check_names' = RouteCheckNames(cfg, r)
    /\ pc' = "loop"
    /\ idx' = 1
    /\ results' = EmptyDict
    /\ all_healthy' = TRUE
    /\ invoked' = <<>>
    /\ response' = EmptyDict
    /\ status_code' = 0
    /\ UNCHANGED <<cfg, env, last, runs>>

\* the state after the try statement t of an iteration; an exception that
\* escapes perform_health_check is answered by the 500 handler (lines 293-300)
AfterTry(t) ==
    /\ results' = t.results
    /\ all_healthy' = t.all_healthy
    /\ IF t.escaped
       THEN /\ pc' = "done"
            /\ status_code' = 500
            /\ response' = [error |-> "Internal Server Error"]
            /\ UNCHANGED idx
       ELSE /\ idx' = idx + 1
            /\ UNCHANGED <<pc, response, status_code>>

\* checker.check() returned or raised outcome
Invoke(check_name, outcome) ==
    /\ invoked' = Append(invoked, [name |-> check_name, outcome |-> outcome])
    /\ AfterTry(TryCheck(check_name, outcome, results, all_healthy))

\* one iteration of the for loop over check_names
CheckStep ==
    /\ pc = "loop"
    /\ idx <= Len(check_names)
    /\ IF ~IsRegistered(cfg, check_names[idx])
       THEN /\ idx' = idx + 1
            /\ UNCHANGED <<pc, results, all_healthy, invoked, response, status_code>>
       ELSE Invoke(check_names[idx], checker_check(cfg, check_names[idx], env))
    /\ UNCHANGED <<cfg, env, route, check_names, last, runs>>

\* the loop is over: the report is built and the route answers (a HEAD
\* request gets the same status code with an empty body)
Finish ==
    /\ pc = "loop"
    /\ idx > Len(check_names)
    /\ pc' = "done"
    /\ status_code' = StatusCode(all_healthy)
    /\ response' = BuildResponse(all_healthy, results)
    /\ UNCHANGED <<cfg, env, route, check_names, idx, results, all_healthy, invoked, last,
                   runs>>

-----------------------------------------------------------------------------
(* Configurations and environments *)

\* config.py _get_default_config: checks and probes
DefaultPorts == [enabled |-> TRUE, targets |-> PyList(<<8080>>), condition |-> "all"]

DefaultProcesses ==
    [enabled |-> TRUE, targets |-> PyList(<<"python">>), condition |-> "any",
     match_type |-> "partial"]

DefaultHttp == [enabled |-> FALSE, targets |-> PyList(<<>>)]

DefaultResources ==
    [empty |-> FALSE, cpu_none |-> FALSE,
     cpu |-> [enabled |-> FALSE, threshold_percent |-> 90],
     memory |-> [enabled |-> TRUE, threshold_percent |-> 90],
     disk |-> [enabled |-> TRUE, threshold_percent |-> 85, paths |-> <<"/">>]]

DefaultProbes ==
    [liveness |-> <<"ports", "processes">>,
     readiness |-> <<"ports", "processes", "http", "resources">>]

DefaultConfig ==
    [ports |-> DefaultPorts, processes |-> DefaultProcesses, http |-> DefaultHttp,
     resources |-> DefaultResources, probes |-> DefaultProbes]

UrlA == "localhost:8000/health"
UrlB == "https://api.local/ready"
FullUrlA == "http://" \o UrlA
FullUrlB == UrlB

PythonProc == CHOOSE p \in ProcPool : p.name = "python3"

\* an environment in which every default check passes
DefaultEnv ==
    [ports |-> [p \in Ports |-> "open"],
     procs |-> {PythonProc},
     http |-> [u \in {FullUrlA, FullUrlB} |-> HttpResponse(200, "service ready")],
     cpu |-> Sample(50),
     memory |-> Sample(50),
     disk |-> [p \in {"/", "/data"} |-> Sample(50)]]

TargetA == [url |-> UrlA]
TargetB == [url |-> UrlB, scheme |-> "HTTPS", method |-> "get",
            expected_response |-> [type |-> "string", contains |-> PyStr("ready")]]
\* a target whose url key is missing
TargetNoUrl == [method |-> "GET"]

\* the check names a probe list may hold
AllNames == {CheckerNames[i] : i \in 1..Len(CheckerNames)} \cup {UnknownName}

\* the deployments the aggregator is run on
AggConfigs ==
    {[DefaultConfig EXCEPT !.ports = po, !.processes = pr, !.http = ht,
                           !.resources = re, !.probes.liveness = lv] :
        po \in {DefaultPorts,
                [DefaultPorts EXCEPT !.targets = PyNone],
                [DefaultPorts EXCEPT !.enabled = FALSE]},
        pr \in {DefaultProcesses, [DefaultProcesses EXCEPT !.enabled = FALSE]},
        ht \in {DefaultHttp,
                [DefaultHttp EXCEPT !.enabled = TRUE],
                [enabled |-> TRUE, targets |-> PyList(<<TargetA>>)]},
        re \in {DefaultResources, [DefaultResources EXCEPT !.cpu_none = TRUE]},
        lv \in SeqsUpTo(AllNames, MaxNames)}

AggEnvs ==
    {[DefaultEnv EXCEPT !.ports[8080] = p, !.memory = m] :
        p \in {"open", "closed"},
        m \in {Sample(50), Sample(95)}}

IdleRun ==
    /\ pc = "idle"
    /\ route = ""
    /\ check_names = <<>>
    /\ idx = 0
    /\ results = EmptyDict
    /\ all_healthy = TRUE
    /\ invoked = <<>>
    /\ response = EmptyDict
    /\ status_code = 0

NoCall == [op |-> "none"]

\* no other request is being served
NoRuns == <<>>

\* the environment changes under the running service
EnvChange ==
    /\ env' \in AggEnvs \ {env}
    /\ UNCHANGED <<cfg, last>>
    /\ UNCHANGED aggVars

Init ==
    /\ cfg \in AggConfigs
    /\ env \in AggEnvs
    /\ IdleRun
    /\ runs = NoRuns
    /\ last = NoCall

Next == StartRequest \/ CheckStep \/ Finish \/ EnvChange

Spec == Init /\ [][Next]_vars

-----------------------------------------------------------------------------
(* Requests served at the same time *)

\* the requests the server works on at once (gunicorn -w 4, Flask threads)
Requests == {1, 2}

\* the frame of a request that has not called perform_health_check yet
IdleFrame ==
    [pc |-> "idle", check_names |-> <<>>, idx |-> 0, results |-> EmptyDict,
     all_healthy |-> TRUE, invoked |-> <<>>, response |-> EmptyDict,
     status_code |-> 0]

\* NewFrame with all_healthy kept from the request served before
NewFrame_keepsVerdict(prev, names) ==
    [pc |-> "loop", check_names |-> names, idx |-> 1, results |-> EmptyDict,
     all_healthy |-> prev.all_healthy, invoked |-> <<>>, response |-> EmptyDict,
     status_code |-> 0]

\* lines 128-138: a call of perform_health_check starts with its own locals,
\* results = {} and all_healthy = True; nothing of the frame prev of the
\* request served before is read
NewFrame(prev, names) ==
    [pc |-> "loop", check_names |-> names, idx |-> 1, results |-> EmptyDict,
     all_healthy |-> TRUE, invoked |-> <<>>, response |-> EmptyDict,
     status_code |-> 0]

\* ConfigAfterCheck with a port check that consumes its target list
ConfigAfterCheck_consumesTargets(c, name) ==
    IF name = "ports" THEN [c EXCEPT !.ports.targets = PyList(<<>>)] ELSE c

\* ConfigAfterCheck with a port check that rewrites its condition
ConfigAfterCheck_rewritesCondition(c, name) ==
    IF name = "ports" THEN [c EXCEPT !.ports.condition = "any"] ELSE c

\* the registry and the checkers' config after checker.check(): check() only
\* reads self.targets, self.condition and the config (port.py 23-59), and
\* perform_health_check only reads the registry
ConfigAfterCheck(c, name) == c

\* the frame after the try statement t of an iteration
FrameAfterTry(f, entry, t) ==
    IF t.escaped
    THEN [f EXCEPT !.results = t.results, !.all_healthy = t.all_healthy,
                   !.invoked = Append(@, entry), !.pc = "done",
                   !.status_code = 500,
                   !.response = [error |-> "Internal Server Error"]]
    ELSE [f EXCEPT !.results = t.results, !.all_healthy = t.all_healthy,
                   !.invoked = Append(@, entry), !.idx = @ + 1]

\* checker.check() sampled the environment e and returned or raised outcome
FrameInvoke(f, check_name, outcome, e) ==
    FrameAfterTry(f, [name |-> check_name, outcome |-> outcome, env |-> e],
                  TryCheck(check_name, outcome, f.results, f.all_healthy))

\* one iteration of the for loop over check_names in the frame f
FrameStep(f, c, e) ==
    IF ~IsRegistered(c, f.check_names[f.idx])
    THEN [f EXCEPT !.idx = @ + 1]
    ELSE FrameInvoke(f, f.check_names[f.idx],
                     checker_check(c, f.check_names[f.idx], e), e)

\* the loop of the frame f is over: the report is built and the route answers
FrameFinish(f) ==
    [f EXCEPT !.pc = "done", !.status_code = StatusCode(f.all_healthy),
              !.response = BuildResponse(f.all_healthy, f.results)]

\* a probe request arrives while the others are being served
StartRun ==
    /\ \E r \in Requests :
        /\ runs[r].pc \in {"idle", "done"}
        /\ \E rt \in {"/livez", "/readyz"} :
            runs' = [runs EXCEPT
                       ![r] = NewFrame(runs[r], RouteCheckNames(cfg, rt))]
    /\ UNCHANGED <<cfg, env, last>>
    /\ UNCHANGED reqVars

\* one of the requests runs one iteration of its loop
StepRun ==
    /\ \E r \in Requests :
        /\ runs[r].pc = "loop"
        /\ runs[r].idx <= Len(runs[r].check_names)
        /\ runs' = [runs EXCEPT ![r] = FrameStep(runs[r], cfg, env)]
        /\ cfg' = IF IsRegistered(cfg, runs[r].check_names[runs[r].idx])
                  THEN ConfigAfterCheck(cfg, runs[r].check_names[runs[r].idx])
                  ELSE cfg
    /\ UNCHANGED <<env, last>>
    /\ UNCHANGED reqVars

\* one of the requests builds its report and answers
FinishRun ==
    /\ \E r \in Requests :
        /\ runs[r].pc = "loop"
        /\ runs[r].idx > Len(runs[r].check_names)
        /\ runs' = [runs EXCEPT ![r] = FrameFinish(runs[r])]
    /\ UNCHANGED <<cfg, env, last>>
    /\ UNCHANGED reqVars

\* the deployments served with concurrent requests: the default checks
\* without the process checker
RunConfigs ==
    {[DefaultConfig EXCEPT !.processes.enabled = FALSE, !.probes.liveness = lv] :
        lv \in {<<"ports">>, <<"resources", "ports">>, <<"ports", "ports">>}}

InitRuns ==
    /\ cfg \in RunConfigs
    /\ env \in AggEnvs
    /\ IdleRun
    /\ last = NoCall
    /\ runs = [r \in Requests |-> IdleFrame]

NextRuns == StartRun \/ StepRun \/ FinishRun \/ EnvChange

SpecRuns == InitRuns /\ [][NextRuns]_vars

-----------------------------------------------------------------------------
(* Direct calls of the checkers and of the endpoint probe *)

Conditions == {"all", "any", "majority"}

PortInputs ==
    {<<[DefaultConfig EXCEPT !.ports.targets = t, !.ports.condition = c],
       [DefaultEnv EXCEPT !.ports = ps]>> :
        t \in {PyList(x) : x \in SeqsUpTo(Ports, MaxTargets)} \cup {PyNone},
        c \in Conditions,
        ps \in [Ports -> PortStates]}

ProcessInputs ==
    {<<[DefaultConfig EXCEPT !.processes.targets = t[1], !.processes.condition = c,
                             !.processes.match_type = t[2]],
       [DefaultEnv EXCEPT !.procs = ps]>> :
        t \in ({PyList(x) : x \in SeqsUpTo(ProcTargets, MaxTargets)} \cup {PyNone})
              \X {"exact", "partial"},
        c \in Conditions,
        ps \in SUBSET ProcPool}

HttpOutcomes ==
    {HttpResponse(200, "service ready"), HttpResponse(200, "service down"),
     HttpResponse(500, "service ready"), HttpRaise("ConnectTimeout")}

HttpInputs ==
    {<<[DefaultConfig EXCEPT !.http = [enabled |-> TRUE, targets |-> t]],
       [DefaultEnv EXCEPT !.http = h]>> :
        t \in {PyList(x) : x \in SeqsUpTo({TargetA, TargetB, TargetNoUrl}, MaxTargets)}
              \cup {PyNone},
        h \in [{FullUrlA, FullUrlB} -> HttpOutcomes]}

Samples == {Sample(50), Sample(85), Sample(90), Sample(95), SampleError}

ResourceInputs ==
    {<<[DefaultConfig EXCEPT !.resources.cpu.enabled = on[1],
                             !.resources.memory.enabled = on[2],
                             !.resources.disk.enabled = on[3],
                             !.resources.disk.threshold_percent = th,
                             !.resources.disk.paths = ps],
       [DefaultEnv EXCEPT !.cpu = s[1], !.memory = s[2],
                          !.disk = [p \in {"/", "/data"} |->
                                        IF p = "/" THEN s[3] ELSE s[4]]]>> :
        on \in BOOLEAN \X BOOLEAN \X BOOLEAN,
        ps \in {<<"/">>, <<"/", "/data">>},
        th \in {85, 90},
        s \in {Sample(50), Sample(90), SampleError}
              \X {Sample(50), Sample(90), Sample(95), SampleError}
              \X {Sample(50), Sample(85), SampleError}
              \X {Sample(50), Sample(85)}}

\* validation specs of the probed target
ValidationSpecs ==
    {[type |-> ty, contains |-> PyStr("ready")] : ty \in {"string", "text", "xml"}}
    \cup {[contains |-> PyStr("ready")],
          [type |-> "string", equals |-> PyStr("service ready")],
          [type |-> "String"],
          [type |-> "number", value |-> PyNum(5), operator |-> "greater_than"],
          [type |-> "number", value |-> PyStr("ten")],
          [type |-> "number"],
          [type |-> "json"],
          [type |-> "JSON", field |-> "status", value |-> PyStr("ok")],
          [type |-> "json", field |-> "a.b", value |-> PyNum(1), operator |-> "equals"],
          [type |-> "json", field |-> "count"],
          [type |-> "json",
           checks |-> <<[field |-> "status", value |-> PyStr("ok"), operator |-> "equals"],
                        [field |-> "count", value |-> PyNum(5),
                         operator |-> "greater_than"]>>],
          [type |-> "json", checks |-> <<[value |-> PyNum(1)]>>]}

ProbeBodies ==
    {"service ready", "service down", "", "42", "3",
     JsonDumps(PyMap([status |-> PyStr("ok"), count |-> PyNum(10)])),
     JsonDumps(PyMap([status |-> PyStr("ok"), count |-> PyNum(3)])),
     JsonDumps(PyMap([a |-> PyMap([b |-> PyNum(1)])])),
     JsonDumps(PyMap([a |-> PyNum(1)]))}

ProbeOutcomes ==
    {HttpRaise(cls) : cls \in ExceptionClasses}
    \cup {HttpResponse(sc, b) : sc \in {200, 204, 500}, b \in ProbeBodies}

ProbeTargets ==
    {[url |-> UrlA, expected_status |-> es] : es \in {200, 204}}
    \cup {[url |-> UrlA, expected_status |-> es, expected_response |-> v] :
            es \in {200, 204}, v \in ValidationSpecs \cup {EmptyDict}}
    \cup {[url |-> UrlA, expected_response |-> v] : v \in ValidationSpecs}

ProbeInputs ==
    {<<[DefaultConfig EXCEPT !.http = [enabled |-> TRUE, targets |-> PyList(<<t>>)]],
       [DefaultEnv EXCEPT !.http[FullUrlA] = o]>> :
        t \in ProbeTargets, o \in ProbeOutcomes}

CheckInputs == PortInputs \cup ProcessInputs \cup HttpInputs \cup ResourceInputs
               \cup ProbeInputs

\* checker.check() is called on a registered checker
CallCheck ==
    /\ \E name \in {n \in AllNames : IsRegistered(cfg, n)} :
        last' = [op |-> "check", name |-> name,
                 outcome |-> checker_check(cfg, name, env)]
    /\ UNCHANGED <<cfg, env>>
    /\ UNCHANGED aggVars

\* one configured endpoint target is probed
CallProbe ==
    /\ ~cfg.http.targets.none
    /\ \E i \in 1..Len(cfg.http.targets.items) :
        last' = [op |-> "probe", target |-> cfg.http.targets.items[i],
                 outcome |-> ProbeTarget(cfg.http.targets.items[i], env)]
    /\ UNCHANGED <<cfg, env>>
    /\ UNCHANGED aggVars

InitCheck ==
    /\ \E input \in CheckInputs :
        /\ cfg = input[1]
        /\ env = input[2]
    /\ IdleRun
    /\ runs = NoRuns
    /\ last = NoCall

NextCheck == CallCheck \/ CallProbe

SpecCheck == InitCheck /\ [][NextCheck]_vars

-----------------------------------------------------------------------------
(* Direct calls of the response validator, the comparator and the resolver *)

MaxChecks == 2
MaxDepth == 2

\* the values the comparator is called on: parsed JSON and YAML values
CompareValues ==
    {PyNull, PyBool(TRUE), PyNum(0), PyNum(1), PyNum(3), PyNum(10),
     PyStr("a"), PyStr("b"), PyStr("10"),
     PyMap(EmptyDict), PyMap([a |-> PyNum(1)])}

\* the operator strings a validation spec may carry
CompareOperators == Operators \cup {"approx", "Equals", ""}

\* the keys the segments of a field path are drawn from
PathKeys == {"a", "b", "status", ""}

\* '.'.join(segs): the field path a configuration writes for the segments
RECURSIVE JoinDots(_)
JoinDots(segs) ==
    IF Len(segs) = 0 THEN ""
    ELSE IF Len(segs) = 1 THEN segs[1]
    ELSE segs[1] \o "." \o JoinDots(Tail(segs))

\* the conditions a 'checks' list is made of; the last one has no field
CheckPool ==
    {[field |-> "status", value |-> PyStr("ok"), operator |-> "equals"],
     [field |-> "count", value |-> PyNum(5), operator |-> "greater_than"],
     [field |-> "count", value |-> PyNum(10)],
     [field |-> "a.b", value |-> PyNum(1), operator |-> "less_equal"],
     [value |-> PyNum(1)]}

JsonCheckSpecs ==
    {[type |-> "json", checks |-> cs] : cs \in SeqsUpTo(CheckPool, MaxChecks)}

JsonFieldSpecs ==
    {[type |-> "json", field |-> f, value |-> v, operator |-> op] :
        f \in {"status", "count", "a.b", "missing", "status.x"},
        v \in {PyNull, PyBool(FALSE), PyNum(0), PyNum(10), PyStr("ok"),
               PyStr(""), PyMap(EmptyDict)},
        op \in CompareOperators}

StringSpecs ==
    UNION {{[type |-> ty], [type |-> ty, equals |-> PyStr(x)],
            [type |-> ty, contains |-> PyStr(x)],
            [type |-> ty, equals |-> PyStr(x), contains |-> PyStr("ready")]} :
           ty \in {"string", "text", "TEXT"},
           x \in {"service ready", "ready", "Ready", ""}}
    \cup {[equals |-> PyStr("service ready")], [contains |-> PyStr("down")]}

TypeSpecs ==
    UNION {{[type |-> ty], [type |-> ty, contains |-> PyStr("ready")],
            [type |-> ty, field |-> "status", value |-> PyStr("ok")],
            [type |-> ty, value |-> PyNum(42)]} :
           ty \in {"xml", "yaml", "", "jsonp", "JSON", "String", "Number"}}

ValidateSpecs ==
    ValidationSpecs \cup JsonCheckSpecs \cup JsonFieldSpecs \cup StringSpecs
    \cup TypeSpecs

ValidateBodies ==
    ProbeBodies
    \cup {"Service Ready", " service ready", "ready", "not json",
          JsonDumps(PyMap([status |-> PyNull])),
          JsonDumps(PyMap(EmptyDict)), JsonDumps(PyStr("ok")),
          JsonDumps(PyMap([count |-> PyNum(10)])),
          JsonDumps(PyMap([count |-> PyNum(10), status |-> PyNull]))}

\* the calls made on the validator, the comparator and the resolver
ValidateCalls ==
    {[op |-> "call", fn |-> "validate", response |-> HttpResponse(200, body),
      expected |-> expected] :
        body \in ValidateBodies, expected \in ValidateSpecs}

CompareCalls ==
    {[op |-> "call", fn |-> "compare", actual |-> actual, expected |-> expected,
      operator |-> operator] :
        actual \in CompareValues, expected \in CompareValues,
        operator \in CompareOperators}

ResolveCalls ==
    {[op |-> "call", fn |-> "resolve", document |-> document, segs |-> segs,
      path |-> JoinDots(segs)] :
        document \in JsonDocs, segs \in SeqsUpTo(PathKeys, MaxDepth) \ {<<>>}}

PendingCall(fn) == last.op = "call" /\ last.fn = fn

\* _validate_response is called on a response body and a validation spec
CallValidate ==
    /\ PendingCall("validate")
    /\ last' = [op |-> "validate", response |-> last.response,
                expected |-> last.expected,
                outcome |-> _validate_response(last.response, last.expected)]
    /\ UNCHANGED <<cfg, env>>
    /\ UNCHANGED aggVars

\* _compare_values is called on two values and an operator string
CallCompare ==
    /\ PendingCall("compare")
    /\ last' = [op |-> "compare", actual |-> last.actual,
                expected |-> last.expected, operator |-> last.operator,
                outcome |-> _compare_values(last.actual, last.expected,
                                            last.operator)]
    /\ UNCHANGED <<cfg, env>>
    /\ UNCHANGED aggVars

\* _get_nested_value is called on a parsed document and a dotted field path
CallResolve ==
    /\ PendingCall("resolve")
    /\ last' = [op |-> "resolve", document |-> last.document, segs |-> last.segs,
                path |-> last.path,
                outcome |-> _get_nested_value(last.document, last.path)]
    /\ UNCHANGED <<cfg, env>>
    /\ UNCHANGED aggVars

InitValidate ==
    /\ cfg = DefaultConfig
    /\ env = DefaultEnv
    /\ IdleRun
    /\ runs = NoRuns
    /\ last \in ValidateCalls \cup CompareCalls \cup ResolveCalls

NextValidate == CallValidate \/ CallCompare \/ CallResolve

SpecValidate == InitValidate /\ [][NextValidate]_vars

-----------------------------------------------------------------------------
(* Properties of perform_health_check and of the probe routes *)

\* the run is over and its report has been returned
RunDone == pc = "done"

InvokedUp(i) ==
    /\ ~invoked[i].outcome.raised
    /\ invoked[i].outcome.result.status = "UP"

EveryInvokedUp == \A i \in 1..Len(invoked) : InvokedUp(i)

\* C1: the overall verdict of a finished run is healthy (report status UP)
\* exactly when every checker the run invoked returned a CheckResult whose
\* status is UP: the fold over the checkers is a plain AND.
C1_VerdictIsConjunction ==
    RunDone =>
        /\ all_healthy <=> EveryInvokedUp
        /\ (response.status = "UP") <=> EveryInvokedUp
        /\ response.status \in {"UP", "DOWN"}

\* a finished run that invoked an UP checker and a checker that is not UP
C1_Witness ==
    /\ RunDone
    /\ \E i, j \in 1..Len(invoked) : InvokedUp(i) /\ ~InvokedUp(j)
    /\ ~all_healthy

\* the names of the checkers a run over names invokes
RegisteredNames(names) == SelectSeq(names, LAMBDA n : IsRegistered(cfg, n))

IsLastCallOf(i) ==
    \A j \in (i + 1)..Len(invoked) : invoked[j].name # invoked[i].name

\* C2: a checker whose check() raises does not abort the run: no exception
\* leaves perform_health_check, every registered checker of the list is
\* invoked, the report holds a DOWN entry carrying the error text under the
\* faulting name, every other entry is the result its own checker returned,
\* and the verdict is DOWN.
C2_FaultIsContained ==
    RunDone =>
        /\ status_code # 500
        /\ [i \in 1..Len(invoked) |-> invoked[i].name] = RegisteredNames(check_names)
        /\ \A i \in 1..Len(invoked) :
            LET n == invoked[i].name
                o == invoked[i].outcome
            IN /\ n \in DOMAIN results
               /\ n \in DOMAIN response.checks
               /\ IF o.raised
                  THEN /\ "error" \in DOMAIN response.checks[n]
                       /\ response.checks[n].status = "DOWN"
                       /\ response.checks[n].error = o.error
                       /\ ~all_healthy
                       /\ response.status = "DOWN"
                  ELSE IsLastCallOf(i) =>
                        /\ "error" \notin DOMAIN response.checks[n]
                        /\ response.checks[n] = to_dict(o.result)

\* a finished run in which a checker raised and a later checker returned UP
C2_Witness ==
    /\ RunDone
    /\ \E i, j \in 1..Len(invoked) :
        /\ i < j
        /\ invoked[i].outcome.raised
        /\ InvokedUp(j)
        /\ response.checks[invoked[j].name].status = "UP"

\* C3: every probe route answers 200 exactly when the verdict of its run is
\* healthy and 503 otherwise; a run in which a checker raised answers 503,
\* never 500.
C3_StatusCodeFollowsVerdict ==
    RunDone =>
        /\ route \in Routes
        /\ status_code = (IF EveryInvokedUp THEN 200 ELSE 503)
        /\ (status_code = 200) <=> all_healthy
        /\ (\E i \in 1..Len(invoked) : invoked[i].outcome.raised) => status_code = 503

\* the readiness route answered 503 for a run in which a checker raised
C3_Witness ==
    /\ RunDone
    /\ route = "/readyz"
    /\ status_code = 503
    /\ \E i \in 1..Len(invoked) : invoked[i].outcome.raised

-----------------------------------------------------------------------------
(* Properties of the checkers *)

CheckReturned(name) ==
    /\ last.op = "check"
    /\ last.name = name
    /\ ~last.outcome.raised

\* the targets of the Port or Process checker and their number
TargetsOf(name) == IF name = "ports" THEN cfg.ports.targets.items
                   ELSE cfg.processes.targets.items

ConditionOf(name) == IF name = "ports" THEN cfg.ports.condition
                     ELSE cfg.processes.condition

\* the i-th target of the checker is healthy in the probed environment
TargetHealthy(name, i) ==
    IF name = "ports" THEN _check_port(cfg.ports.targets.items[i], env)
    ELSE _check_process(cfg.processes.targets.items[i],
                        cfg.processes.match_type, env).is_running

\* k: how many of the n targets are healthy
HealthyCount(name) ==
    Cardinality({i \in 1..Len(TargetsOf(name)) : TargetHealthy(name, i)})

Ratio(k, n) == ToString(k) \o "/" \o ToString(n)

\* C4: with condition "all" the Port and Process checkers return UP exactly
\* when all n targets are healthy, and with k < n healthy targets they return
\* DOWN with a message reporting k/n.
C4_AllRequiresEveryTarget ==
    \A name \in {"ports", "processes"} :
        (CheckReturned(name) /\ ConditionOf(name) = "all") =>
            LET n == Len(TargetsOf(name))
                k == HealthyCount(name)
                r == last.outcome.result
            IN /\ (r.status = "UP") <=> (k = n)
               /\ k < n =>
                    /\ r.status = "DOWN"
                    /\ r.message = IF name = "ports"
                                   THEN "Only " \o Ratio(k, n) \o " ports listening"
                                   ELSE "Only " \o Ratio(k, n) \o " processes running"

\* the Port checker, condition "all", two distinct targets of which one listens
C4_Witness ==
    /\ CheckReturned("ports")
    /\ cfg.ports.condition = "all"
    /\ cfg.ports.targets.items = <<8080, 9090>>
    /\ HealthyCount("ports") = 1
    /\ last.outcome.result.status = "DOWN"
    /\ last.outcome.result.message = "Only 1/2 ports listening"

\* C5: with condition "any" the Port and Process checkers return UP exactly
\* when at least one target is healthy; with no healthy target the message is
\* "No ports listening" / "No processes running", with k >= 1 it is another
\* message, which reports k/n.
C5_AnyRequiresOneTarget ==
    \A name \in {"ports", "processes"} :
        (CheckReturned(name) /\ ConditionOf(name) = "any") =>
            LET n == Len(TargetsOf(name))
                k == HealthyCount(name)
                r == last.outcome.result
                none_msg == IF name = "ports" THEN "No ports listening"
                            ELSE "No processes running"
            IN /\ (r.status = "UP") <=> (k >= 1)
               /\ r.status \in {"UP", "DOWN"}
               /\ k = 0 => r.message = none_msg
               /\ k >= 1 =>
                    /\ r.message # none_msg
                    /\ r.message = IF name = "ports"
                                   THEN "At least one port listening ("
                                        \o Ratio(k, n) \o ")"
                                   ELSE "At least one process running ("
                                        \o Ratio(k, n) \o ")"

\* the Process checker, condition "any", two targets of which one is running
C5_Witness ==
    /\ CheckReturned("processes")
    /\ cfg.processes.condition = "any"
    /\ Len(cfg.processes.targets.items) = 2
    /\ HealthyCount("processes") = 1
    /\ last.outcome.result.status = "UP"

\* the probe of the i-th configured HTTP target reports healthy
EndpointHealthy(i) ==
    LET p == ProbeTarget(cfg.http.targets.items[i], env)
    IN ~p.raised /\ p.result.result.healthy

HttpTargetCount == IF cfg.http.targets.none THEN 0 ELSE Len(cfg.http.targets.items)

\* C6: the HTTP checker returns a healthy CheckResult (status UP) exactly
\* when every configured endpoint target was probed healthy.
C6_HttpUpIffAllEndpointsHealthy ==
    (CheckReturned("http") /\ HttpTargetCount > 0) =>
        LET r == last.outcome.result
            all_ok == \A i \in 1..HttpTargetCount : EndpointHealthy(i)
        IN /\ is_healthy(r) <=> all_ok
           /\ (r.status = "UP") <=> all_ok

\* C7: with zero configured targets the HTTP checker returns a healthy
\* result (status UP), and a run that invoked it is not DOWN on its account.
C7_HttpNoTargetsIsHealthy ==
    HttpTargetCount = 0 =>
        /\ CheckReturned("http") =>
            /\ last.outcome.result.status = "UP"
            /\ is_healthy(last.outcome.result)
        /\ \A i \in 1..Len(invoked) :
            invoked[i].name = "http" =>
                /\ ~invoked[i].outcome.raised
                /\ is_healthy(invoked[i].outcome.result)
                /\ (RunDone /\ \A j \in 1..Len(invoked) :
                                invoked[j].name # "http" => InvokedUp(j))
                        => all_healthy

\* C8: every CheckResult a checker returns has status UP or DOWN, and it is
\* healthy exactly when its status is UP.
C8_StatusIsUpOrDown ==
    \A name \in {"ports", "processes", "http", "resources"} :
        CheckReturned(name) =>
            /\ last.outcome.result.status \in {"UP", "DOWN"}
            /\ is_healthy(last.outcome.result) <=> (last.outcome.result.status = "UP")

-----------------------------------------------------------------------------
(* Properties of the endpoint probe *)

\* the last call probed a target and the HTTP request returned a response
ProbeAnswered ==
    /\ last.op = "probe"
    /\ ~last.outcome.raised
    /\ ~env.http[last.outcome.result.full_url].raised

ProbedResponse == env.http[last.outcome.result.full_url]

ProbedExpectedStatus == DictGet(last.target, "expected_status", 200)

ProbeResult == last.outcome.result.result

\* C9: a response whose status code differs from expected_status makes the
\* probe unhealthy with a status-mismatch error, and the result carries no
\* validation result, whatever the body and the validation spec.
C9_StatusMismatchSkipsValidation ==
    (ProbeAnswered /\ ProbedResponse.status_code # ProbedExpectedStatus) =>
        /\ ProbeResult.healthy = FALSE
        /\ "error" \in DOMAIN ProbeResult
        /\ ProbeResult.error =
             "Status code mismatch: expected " \o ToString(ProbedExpectedStatus)
             \o ", got " \o ToString(ProbedResponse.status_code)
        /\ "response_validation" \notin DOMAIN ProbeResult
        /\ last.outcome.result.detail.response_validation.none

\* a 204 answer to a probe expecting 200 whose body satisfies the
\* validation spec of the target
C9_Witness ==
    /\ ProbeAnswered
    /\ ProbedResponse.status_code = 204
    /\ ProbedExpectedStatus = 200
    /\ "expected_response" \in DOMAIN last.target
    /\ DOMAIN last.target.expected_response # {}
    /\ _validate_response(ProbedResponse, last.target.expected_response).valid
    /\ ~ProbeResult.healthy

\* C10: when the response has the expected status code, a probe with a
\* validation spec is healthy exactly when the validator accepts the
\* response, and on a rejection its error is the validator's error; a probe
\* without a validation spec is healthy.
C10_ValidationDecidesHealth ==
    (ProbeAnswered /\ ProbedResponse.status_code = ProbedExpectedStatus) =>
        IF "expected_response" \in DOMAIN last.target
        THEN LET v == _validate_response(ProbedResponse, last.target.expected_response)
             IN /\ ProbeResult.healthy <=> v.valid
                /\ ~v.valid =>
                    /\ ProbeResult.error = v.error
                    /\ ProbeResult.response_validation = v
        ELSE /\ ProbeResult.healthy
             /\ "error" \notin DOMAIN ProbeResult

\* a 200 answer, as expected, whose body the validation spec rejects
C10_Witness ==
    /\ ProbeAnswered
    /\ ProbedResponse.status_code = 200
    /\ ProbedExpectedStatus = 200
    /\ "response_validation" \in DOMAIN ProbeResult
    /\ ~ProbeResult.response_validation.valid
    /\ ~ProbeResult.healthy
    /\ ProbeResult.error = ProbeResult.response_validation.error

-----------------------------------------------------------------------------
(* Properties of the response validator *)

\* the last call validated a response whose spec selects the validator ty
Validated(ty) ==
    /\ last.op = "validate"
    /\ Lower(DictGet(last.expected, "type", "string")) = ty

\* the parsed body of the validated response
ValidatedDoc == JsonLoads(last.response.text)

HasField(check) == "field" \in DOMAIN check

\* compare(resolve(doc, field), value, operator) for one condition
CheckPasses(doc, check) ==
    _compare_values(_get_nested_value(doc, check.field),
                    DictGet(check, "value", PyNull),
                    DictGet(check, "operator", "equals"))

\* check i is the first one that fails, every check before it naming a field
IsFirstFailing(doc, checks, i) ==
    /\ \A j \in 1..i : HasField(checks[j])
    /\ ~CheckPasses(doc, checks[i])
    /\ \A j \in 1..(i - 1) : CheckPasses(doc, checks[j])

\* C11: on a body that parses as JSON a 'checks' list is valid exactly when
\* every check passes compare(resolve(doc, field), value, operator); when a
\* check fails the verdict is invalid, its expected and actual values and the
\* field its error names are those of the first failing check, whatever the
\* checks after it are.
C11_ChecksListFirstFailure ==
    (Validated("json") /\ "checks" \in DOMAIN last.expected /\ ~ValidatedDoc.raised) =>
        LET doc == ValidatedDoc.result
            checks == last.expected.checks
            v == last.outcome
        IN /\ v.valid <=> \A i \in 1..Len(checks) :
                            HasField(checks[i]) /\ CheckPasses(doc, checks[i])
           /\ \A i \in 1..Len(checks) :
                IsFirstFailing(doc, checks, i) =>
                    /\ ~v.valid
                    /\ v.expected = DictGet(checks[i], "value", PyNull)
                    /\ v.actual = _get_nested_value(doc, checks[i].field)
                    /\ StartsWith(v.error, "Field '" \o checks[i].field \o "': ")

\* the status check passes and the count check after it fails on count 3
C11_Witness ==
    /\ Validated("json")
    /\ "checks" \in DOMAIN last.expected
    /\ Len(last.expected.checks) = 2
    /\ last.response.text = JsonDumps(PyMap([status |-> PyStr("ok"), count |-> PyNum(3)]))
    /\ \A i \in 1..2 : HasField(last.expected.checks[i])
    /\ last.expected.checks[1].field = "status"
    /\ last.expected.checks[2].field = "count"
    /\ ~last.outcome.valid
    /\ "actual" \in DOMAIN last.outcome
    /\ last.outcome.actual = PyNum(3)
    /\ StartsWith(last.outcome.error, "Field 'count'")

\* the document has a value under the segments, each traversed value being
\* a mapping that holds the next segment
RECURSIVE HasPath(_, _)
HasPath(doc, segs) ==
    \/ segs = <<>>
    \/ /\ doc.t = "map"
       /\ Head(segs) \in DOMAIN doc.m
       /\ HasPath(doc.m[Head(segs)], Tail(segs))

RECURSIVE ValueAt(_, _)
ValueAt(doc, segs) ==
    IF segs = <<>> THEN doc ELSE ValueAt(doc.m[Head(segs)], Tail(segs))

\* the answer of the resolver for a path that addresses nothing
Absent == PyNull

\* C12: resolve(document, path) returns the value the dot-separated segments
\* of path address when every traversed value is a mapping containing the
\* next segment, and Absent, without raising, otherwise.
C12_ResolveWalksSegments ==
    last.op = "resolve" =>
        /\ HasPath(last.document, last.segs) =>
                last.outcome = ValueAt(last.document, last.segs)
        /\ ~HasPath(last.document, last.segs) => last.outcome = Absent

\* resolve({a: {b: 1}}, 'a.b') = 1
C12_Witness ==
    /\ last.op = "resolve"
    /\ last.document = PyMap([a |-> PyMap([b |-> PyNum(1)])])
    /\ last.path = "a.b"
    /\ last.outcome = PyNum(1)

\* the segments of the field paths the single-field specs use
FieldSegs ==
    ("status" :> <<"status">>) @@ ("count" :> <<"count">>)
    @@ ("a.b" :> <<"a", "b">>) @@ ("missing" :> <<"missing">>)
    @@ ("status.x" :> <<"status", "x">>)

\* the last call validated a parsed JSON body against one {field, value,
\* operator} condition whose field the document lacks
MissingFieldChecked ==
    /\ Validated("json")
    /\ "checks" \notin DOMAIN last.expected
    /\ "field" \in DOMAIN last.expected
    /\ "value" \in DOMAIN last.expected
    /\ ~ValidatedDoc.raised
    /\ ~HasPath(ValidatedDoc.result, FieldSegs[last.expected.field])

\* C13: a JSON check whose field is missing from the document fails for every
\* operator, recognized or not, and every expected value other than null; it
\* fails as an invalid verdict carrying the field error, not as an exception.
C13_MissingFieldFails ==
    (MissingFieldChecked /\ last.expected.value # PyNull) =>
        /\ ~last.outcome.valid
        /\ StartsWith(last.outcome.error,
                      "Field '" \o last.expected.field \o "': expected ")
        /\ "actual" \in DOMAIN last.outcome
        /\ last.outcome.actual = Absent
        /\ last.outcome.expected = last.expected.value

\* 'status.x' on {status: 'ok', count: 10}, expected 'ok' under an operator
\* the comparator does not know
C13_Witness ==
    /\ MissingFieldChecked
    /\ last.expected.field = "status.x"
    /\ last.expected.value = PyStr("ok")
    /\ last.expected.operator = "approx"
    /\ last.response.text = JsonDumps(PyMap([status |-> PyStr("ok"), count |-> PyNum(10)]))
    /\ ~last.outcome.valid

-----------------------------------------------------------------------------
(* Properties of the comparator *)

OrderingOperators == {"greater_than", "less_than", "greater_equal", "less_equal"}

\* C14: under an ordering operator compare returns false, without raising,
\* whenever one of the operands is not a number: only numbers are ordered.
C14_OrderingNeedsNumbers ==
    (/\ last.op = "compare"
     /\ last.operator \in OrderingOperators
     /\ (~IsNumeric(last.actual) \/ ~IsNumeric(last.expected))) =>
        last.outcome = FALSE

\* C15: under an operator string that is not one of the five recognized ones
\* compare returns what it returns under 'equals' on the same two values.
C15_UnknownOperatorIsEquals ==
    (last.op = "compare" /\ last.operator \notin Operators) =>
        last.outcome = _compare_values(last.actual, last.expected, "equals")

\* an unknown operator on two equal numbers: true, as under 'equals'
C15_Witness ==
    /\ last.op = "compare"
    /\ last.operator = "approx"
    /\ last.actual = PyNum(10)
    /\ last.expected = PyNum(10)
    /\ last.outcome = TRUE

\* a <= b for two numbers or two strings
LessOrEqual(a, b) ==
    \/ IsNumeric(a) /\ IsNumeric(b) /\ a.n <= b.n
    \/ a.t = "str" /\ b.t = "str" /\ (a.s = b.s \/ StrLess(a.s, b.s))

\* C16: compare(x, x, 'equals') is true for every value x, and
\* compare(a, b, 'greater_than') is false whenever a <= b.
C16_EqualsReflexiveGreaterStrict ==
    last.op = "compare" =>
        /\ (last.operator = "equals" /\ last.actual = last.expected) =>
                last.outcome = TRUE
        /\ (last.operator = "greater_than" /\ LessOrEqual(last.actual, last.expected)) =>
                last.outcome = FALSE

\* compare(3, 3, 'greater_than') is false
C16_Witness ==
    /\ last.op = "compare"
    /\ last.operator = "greater_than"
    /\ last.actual = PyNum(3)
    /\ last.expected = PyNum(3)
    /\ last.outcome = FALSE

-----------------------------------------------------------------------------
(* Properties of the string validator and of the type dispatch *)

\* text has needle as a substring
HasSubstring(text, needle) ==
    \E i \in 1..(Len(text) + 1) :
        /\ i + Len(needle) - 1 <= Len(text)
        /\ \A k \in 1..Len(needle) :
            SubSeq(text, i + k - 1, i + k - 1) = SubSeq(needle, k, k)

\* C17: a spec of type string or text with 'equals' is valid exactly when the
\* whole body is that string, case-sensitive and untrimmed; without 'equals'
\* and with 'contains' it is valid exactly when the body contains that
\* substring; with neither key it is valid for every body.
C17_StringValidation ==
    (Validated("string") \/ Validated("text")) =>
        LET text == last.response.text
            expected == last.expected
        IN IF "equals" \in DOMAIN expected
           THEN last.outcome.valid <=> text = expected.equals.s
           ELSE IF "contains" \in DOMAIN expected
           THEN last.outcome.valid <=> HasSubstring(text, expected.contains.s)
           ELSE last.outcome.valid

\* 'contains: ready' against the body 'service down' is invalid
C17_Witness ==
    /\ Validated("string")
    /\ "equals" \notin DOMAIN last.expected
    /\ "contains" \in DOMAIN last.expected
    /\ last.expected.contains = PyStr("ready")
    /\ last.response.text = "service down"
    /\ ~last.outcome.valid
    /\ last.outcome.actual = "service down"

SupportedTypes == {"json", "string", "text", "number"}

UnsupportedTypeError(v) ==
    /\ ~v.valid
    /\ StartsWith(v.error, "Unsupported response type: ")

\* C18 as stated: a spec whose type is not one of json, string, text or
\* number is invalid with an unsupported-type error for every body.
C18_UnknownTypeIsInvalid ==
    (/\ last.op = "validate"
     /\ "type" \in DOMAIN last.expected
     /\ last.expected.type \notin SupportedTypes) =>
        UnsupportedTypeError(last.outcome)

\* C18, amended: the type is compared in lower case: a spec whose type,
\* lower-cased, is not one of json, string, text or number is invalid with
\* the error "Unsupported response type: <lower-cased type>" for every body.
C18_UnknownLowercasedTypeIsInvalid ==
    (/\ last.op = "validate"
     /\ "type" \in DOMAIN last.expected
     /\ Lower(last.expected.type) \notin SupportedTypes) =>
        /\ UnsupportedTypeError(last.outcome)
        /\ last.outcome.error =
             "Unsupported response type: " \o Lower(last.expected.type)
        /\ DOMAIN last.outcome = {"valid", "error"}

\* type 'xml' with 'contains: ready' against the body 'service ready'
C18_Witness ==
    /\ last.op = "validate"
    /\ last.expected = [type |-> "xml", contains |-> PyStr("ready")]
    /\ last.response.text = "service ready"
    /\ ~last.outcome.valid
    /\ last.outcome.error = "Unsupported response type: xml"

-----------------------------------------------------------------------------
(* Properties of the Resource checker *)

\* the sub-check is switched on in the configuration
SubCheckEnabled(sub) ==
    IF sub = "cpu" THEN cfg.resources.cpu.enabled
    ELSE IF sub = "memory" THEN cfg.resources.memory.enabled
    ELSE cfg.resources.disk.enabled

\* a sample passes when it was taken and lies strictly below the threshold
SamplePasses(sample, threshold) == ~sample.raised /\ sample.percent < threshold

DiskPaths == {cfg.resources.disk.paths[i] : i \in 1..Len(cfg.resources.disk.paths)}

\* the sub-check passes on the samples of the environment
SubCheckPasses(sub) ==
    IF sub = "cpu" THEN SamplePasses(env.cpu, cfg.resources.cpu.threshold_percent)
    ELSE IF sub = "memory"
    THEN SamplePasses(env.memory, cfg.resources.memory.threshold_percent)
    ELSE \A p \in DiskPaths :
            SamplePasses(env.disk[p], cfg.resources.disk.threshold_percent)

SubChecks == {"cpu", "memory", "disk"}

\* C19: the Resource checker is UP exactly when every enabled sub-check is
\* UP; a disabled sub-check has no entry in the details and no influence on
\* the status; every enabled sub-check reports its own verdict, whatever the
\* other sub-checks found.
C19_ResourceUpIffEnabledSubChecksUp ==
    CheckReturned("resources") =>
        LET r == last.outcome.result
        IN /\ DOMAIN r.details = {sub \in SubChecks : SubCheckEnabled(sub)}
           /\ (r.status = "UP") <=>
                \A sub \in DOMAIN r.details : r.details[sub].status = "UP"
           /\ r.status \in {"UP", "DOWN"}
           /\ \A sub \in DOMAIN r.details :
                (r.details[sub].status = "UP") <=> SubCheckPasses(sub)
           /\ (r.status = "UP") <=>
                \A sub \in SubChecks : SubCheckEnabled(sub) => SubCheckPasses(sub)

\* memory at 95% against the threshold 90 with the disk passing and the CPU
\* sub-check, whose sample would fail, switched off
C19_Witness ==
    /\ CheckReturned("resources")
    /\ ~SubCheckEnabled("cpu") /\ ~SubCheckPasses("cpu")
    /\ SubCheckEnabled("memory") /\ env.memory = Sample(95)
    /\ cfg.resources.memory.threshold_percent = 90
    /\ SubCheckEnabled("disk")
    /\ last.outcome.result.status = "DOWN"
    /\ last.outcome.result.details.memory.status = "DOWN"
    /\ last.outcome.result.details.disk.status = "UP"

\* C20: a sub-check passes exactly when its sample is strictly below its
\* threshold, a sample equal to the threshold being DOWN; every configured
\* disk path has its own entry, decided by its own sample even after another
\* path failed or could not be sampled, and the disk sub-check is UP exactly
\* when every configured path passes.
C20_StrictThresholdPerPath ==
    CheckReturned("resources") =>
        LET d == last.outcome.result.details
        IN /\ "cpu" \in DOMAIN d =>
                /\ (d.cpu.status = "UP") <=>
                        SamplePasses(env.cpu, cfg.resources.cpu.threshold_percent)
                /\ d.cpu.status \in {"UP", "DOWN"}
           /\ "memory" \in DOMAIN d =>
                /\ (d.memory.status = "UP") <=>
                        SamplePasses(env.memory, cfg.resources.memory.threshold_percent)
                /\ d.memory.status \in {"UP", "DOWN"}
           /\ "disk" \in DOMAIN d =>
                /\ DOMAIN d.disk.paths = DiskPaths
                /\ \A p \in DiskPaths :
                    /\ (d.disk.paths[p].status = "UP") <=>
                            SamplePasses(env.disk[p],
                                         cfg.resources.disk.threshold_percent)
                    /\ d.disk.paths[p].status \in {"UP", "DOWN"}
                /\ (d.disk.status = "UP") <=>
                        \A p \in DiskPaths : d.disk.paths[p].status = "UP"

\* memory exactly at its threshold is DOWN, and the second disk path is
\* evaluated, and passes, after the first one could not be sampled
C20_Witness ==
    /\ CheckReturned("resources")
    /\ SubCheckEnabled("memory")
    /\ env.memory = Sample(90)
    /\ cfg.resources.memory.threshold_percent = 90
    /\ last.outcome.result.details.memory.status = "DOWN"
    /\ SubCheckEnabled("disk")
    /\ cfg.resources.disk.paths = <<"/", "/data">>
    /\ env.disk["/"].raised
    /\ last.outcome.result.details.disk.paths["/data"].status = "UP"
    /\ last.outcome.result.details.disk.status = "DOWN"

-----------------------------------------------------------------------------
(* Properties of the probe's failure handling and of the HTTP check loop *)

\* the last call probed the target url and the HTTP request raised
ProbeRequestFailed ==
    /\ last.op = "probe"
    /\ "url" \in DOMAIN last.target
    /\ last.target.url = UrlA
    /\ env.http[FullUrlA].raised

\* the error of a failed request, by the first category its exception is in
FailureMessage(cls, error, timeout) ==
    IF "SSLError" \in ExceptionBases[cls] THEN "SSL certificate error: " \o error
    ELSE IF "Timeout" \in ExceptionBases[cls]
    THEN "Request timeout after " \o ToString(timeout) \o "s"
    ELSE IF "ConnectionError" \in ExceptionBases[cls] THEN "Connection error: " \o error
    ELSE IF "RequestException" \in ExceptionBases[cls] THEN "Request error: " \o error
    ELSE "Unexpected error: " \o error

\* C22: a request that fails with a TLS error, a timeout, a connection error,
\* another request error or any other exception is not raised out of the
\* probe: the probe returns healthy = false with one error message, whose
\* prefix is that of the first category, in this order, the failure is in.
C22_RequestFailureIsAResult ==
    ProbeRequestFailed =>
        /\ ~last.outcome.raised
        /\ DOMAIN ProbeResult = {"healthy", "error"}
        /\ ProbeResult.healthy = FALSE
        /\ ProbeResult.error =
             FailureMessage(env.http[FullUrlA].cls, env.http[FullUrlA].error,
                            DictGet(last.target, "timeout", 5))
        /\ last.outcome.result.detail.error = Some(ProbeResult.error)

\* a connect timeout, which is both a connection error and a timeout, is
\* reported as a timeout
C22_Witness ==
    /\ ProbeRequestFailed
    /\ env.http[FullUrlA].cls = "ConnectTimeout"
    /\ ~last.outcome.raised
    /\ ProbeResult.error = "Request timeout after 5s"

\* the payload of the HTTP checker's result: the healthy, unhealthy and
\* details lists (CheckResult's third positional argument)
HttpPayload == last.outcome.result.message

\* the URL the i-th configured target is probed at
TargetUrl(i) ==
    IF cfg.http.targets.items[i].url = UrlA THEN FullUrlA ELSE FullUrlB

\* the URLs of the targets whose detail entry has the healthy flag h, in order
UrlsWithHealth(details, h) ==
    LET picked == SelectSeq(details, LAMBDA d : d.healthy = h)
    IN [i \in 1..Len(picked) |-> picked[i].url]

\* C23: within one check() of the HTTP checker every configured target is
\* probed once, in configuration order, whatever the targets before it
\* answered: the details list has one entry per target, in order, and the
\* healthy and unhealthy lists together hold every target once.
C23_EveryTargetProbedOnce ==
    (CheckReturned("http") /\ HttpTargetCount > 0) =>
        LET n == HttpTargetCount
            p == HttpPayload
        IN /\ Len(p.details) = n
           /\ \A i \in 1..n :
                /\ p.details[i].url = TargetUrl(i)
                /\ p.details[i].healthy = EndpointHealthy(i)
           /\ Len(p.healthy) + Len(p.unhealthy) = n
           /\ p.healthy = UrlsWithHealth(p.details, TRUE)
           /\ p.unhealthy = UrlsWithHealth(p.details, FALSE)

\* the first target times out and the second one is probed and healthy
C23_Witness ==
    /\ CheckReturned("http")
    /\ cfg.http.targets.items = <<TargetA, TargetB>>
    /\ env.http[FullUrlA] = HttpRaise("ConnectTimeout")
    /\ Len(HttpPayload.details) = 2
    /\ HttpPayload.details[2].healthy
    /\ HttpPayload.unhealthy = <<FullUrlA>>
    /\ HttpPayload.healthy = <<FullUrlB>>

-----------------------------------------------------------------------------
(* Properties of the details and of the conditions of the Port and Process
   checkers *)

PortDetails == last.outcome.result.details

UpEntries(entries) == {k \in DOMAIN entries : entries[k].status = "UP"}

\* C28 as stated: success_count is the number of UP entries of details.ports
\* and total_count the number of its entries, for every target list.
C28_CountsMatchPortEntries ==
    CheckReturned("ports") =>
        /\ PortDetails.success_count = Cardinality(UpEntries(PortDetails.ports))
        /\ PortDetails.total_count = Cardinality(DOMAIN PortDetails.ports)

PortTargetSet == {cfg.ports.targets.items[i] : i \in 1..Len(cfg.ports.targets.items)}

\* C28, amended: success_count is the number of targets, counted with their
\* repetitions, whose port listens and total_count is the length of the
\* target list; details.ports has one entry per distinct port, so the two
\* counts are those of its UP entries and of its entries exactly when no
\* port is named twice.
C28_CountsMatchTargets ==
    CheckReturned("ports") =>
        LET targets == cfg.ports.targets.items
            distinct == Cardinality(PortTargetSet) = Len(targets)
        IN /\ PortDetails.success_count = HealthyCount("ports")
           /\ PortDetails.total_count = Len(targets)
           /\ DOMAIN PortDetails.ports = {PortKey(p) : p \in PortTargetSet}
           /\ \A p \in PortTargetSet :
                (PortDetails.ports[PortKey(p)].status = "UP") <=> env.ports[p] = "open"
           /\ distinct <=>
                PortDetails.total_count = Cardinality(DOMAIN PortDetails.ports)
           /\ distinct =>
                PortDetails.success_count = Cardinality(UpEntries(PortDetails.ports))

\* the listening port 8080 named twice: two successes, one entry
C28_Witness ==
    /\ CheckReturned("ports")
    /\ cfg.ports.targets.items = <<8080, 8080>>
    /\ env.ports[8080] = "open"
    /\ PortDetails.success_count = 2
    /\ PortDetails.total_count = 2
    /\ Cardinality(DOMAIN PortDetails.ports) = 1

\* C29: with an empty target list the Port and Process checkers are UP under
\* condition "all" and DOWN under condition "any"; every condition other
\* than "all", a known one or not, is decided by the "any" rule: UP exactly
\* when at least one target is healthy.
C29_EmptyTargetsAndOtherConditions ==
    \A name \in {"ports", "processes"} :
        CheckReturned(name) =>
            LET n == Len(TargetsOf(name))
                k == HealthyCount(name)
                r == last.outcome.result
            IN /\ (n = 0 /\ ConditionOf(name) = "all") => r.status = "UP"
               /\ (n = 0 /\ ConditionOf(name) = "any") => r.status = "DOWN"
               /\ ConditionOf(name) # "all" =>
                    /\ (r.status = "UP") <=> (k >= 1)
                    /\ r.status \in {"UP", "DOWN"}
                    /\ r.message = IF k = 0
                                   THEN (IF name = "ports" THEN "No ports listening"
                                         ELSE "No processes running")
                                   ELSE (IF name = "ports"
                                         THEN "At least one port listening ("
                                              \o Ratio(k, n) \o ")"
                                         ELSE "At least one process running ("
                                              \o Ratio(k, n) \o ")")

\* the Process checker under the condition "majority" with one of two
\* targets running is UP
C29_Witness ==
    /\ CheckReturned("processes")
    /\ cfg.processes.condition = "majority"
    /\ Len(cfg.processes.targets.items) = 2
    /\ HealthyCount("processes") = 1
    /\ last.outcome.result.status = "UP"

-----------------------------------------------------------------------------
(* Missing fields and null fields in the JSON validator *)

\* the last call validated a JSON object against one {field, value, operator}
\* condition on a top-level field the object lacks
TopLevelFieldMissing ==
    /\ Validated("json")
    /\ "checks" \notin DOMAIN last.expected
    /\ "field" \in DOMAIN last.expected
    /\ "value" \in DOMAIN last.expected
    /\ last.expected.field \in JsonKeys
    /\ ~ValidatedDoc.raised
    /\ ValidatedDoc.result.t = "map"
    /\ last.expected.field \notin DOMAIN ValidatedDoc.result.m

\* the validated document with the missing field set to null
DocWithNullField ==
    PyMap(DictSet(ValidatedDoc.result.m, last.expected.field, PyNull))

\* C30: a check on a document that lacks the field gives the verdict it
\* gives on the same document with the field set to null, for every
\* expected value and operator; with the expected value null it passes under
\* 'equals' and under an operator the comparator does not know.
C30_MissingFieldIsNullField ==
    (TopLevelFieldMissing /\ DocWithNullField \in JsonDocs) =>
        /\ last.outcome =
             _validate_response(HttpResponse(200, JsonDumps(DocWithNullField)),
                                last.expected)
        /\ (last.expected.value = PyNull
            /\ last.expected.operator \notin OrderingOperators) => last.outcome.valid

\* 'status' equals null on the document {count: 10}: valid
C30_Witness ==
    /\ TopLevelFieldMissing
    /\ last.response.text = JsonDumps(PyMap([count |-> PyNum(10)]))
    /\ last.expected.field = "status"
    /\ last.expected.value = PyNull
    /\ last.expected.operator = "equals"
    /\ last.outcome.valid

-----------------------------------------------------------------------------
(* Properties of the report of perform_health_check *)

\* C26: in every report the overall status is DOWN exactly when an entry of
\* its checks map has status DOWN, also when a name is listed twice and the
\* environment changes between the two invocations of its checker.
C26_DownIffSomeEntryDown ==
    (RunDone /\ status_code # 500) =>
        ((response.status = "DOWN") <=>
            \E n \in DOMAIN response.checks : response.checks[n].status = "DOWN")

\* the configuration enables a checker for the name
HasChecker(n) ==
    \/ n = "ports" /\ cfg.ports.enabled
    \/ n = "processes" /\ cfg.processes.enabled
    \/ n = "http" /\ cfg.http.enabled
    \/ n = "resources" /\ ~cfg.resources.empty

NamesWithChecker == {check_names[i] : i \in {j \in 1..Len(check_names) :
                                                HasChecker(check_names[j])}}

\* C27: a name without a registered checker is skipped: it has no entry in
\* the report, its checker is not invoked and it does not make the verdict
\* DOWN; a run none of whose names has a checker answers UP with an empty
\* checks map.
C27_UnregisteredNameIsSkipped ==
    (RunDone /\ status_code # 500) =>
        /\ DOMAIN response.checks = NamesWithChecker
        /\ \A i \in 1..Len(invoked) : HasChecker(invoked[i].name)
        /\ (response.status = "UP") <=> EveryInvokedUp
        /\ NamesWithChecker = {} =>
            /\ response.status = "UP"
            /\ response.checks = EmptyDict
            /\ status_code = 200

\* the liveness probe lists the disabled HTTP checker and an unknown name
C27_Witness ==
    /\ RunDone
    /\ route = "/livez"
    /\ check_names = <<"http", UnknownName>>
    /\ ~cfg.http.enabled
    /\ response.status = "UP"
    /\ response.checks = EmptyDict

-----------------------------------------------------------------------------
(* Properties of several runs of perform_health_check *)

\* the request r was answered with a report
FrameDone(r) == runs[r].pc = "done" /\ runs[r].status_code # 500

\* the environments the checkers of the request r sampled
SampledEnvs(r) == {runs[r].invoked[i].env : i \in 1..Len(runs[r].invoked)}

\* the names whose checkers the request r invoked
InvokedNames(r) == {runs[r].invoked[i].name : i \in 1..Len(runs[r].invoked)}

\* the status value of every entry of the report of the request r
CheckStatuses(r) ==
    [n \in DOMAIN runs[r].response.checks |-> runs[r].response.checks[n].status]

\* C21: two runs of perform_health_check with the same check names whose
\* checkers all sampled one and the same environment report the same overall
\* status and the same status for every check.
C21_SameEnvironmentSameStatuses ==
    \A r1 \in Requests : \A r2 \in Requests \ {r1} :
        (/\ FrameDone(r1)
         /\ FrameDone(r2)
         /\ runs[r1].check_names = runs[r2].check_names
         /\ \E e \in AggEnvs : SampledEnvs(r1) \cup SampledEnvs(r2) \subseteq {e}) =>
            /\ runs[r1].response.status = runs[r2].response.status
            /\ CheckStatuses(r1) = CheckStatuses(r2)

\* both requests ran the resource and the port check while port 8080 was
\* closed: both report DOWN, with resources UP and ports DOWN
C21_Witness ==
    /\ FrameDone(1)
    /\ FrameDone(2)
    /\ runs[1].check_names = <<"resources", "ports">>
    /\ runs[2].check_names = <<"resources", "ports">>
    /\ Len(runs[1].invoked) = 2
    /\ Len(runs[2].invoked) = 2
    /\ \E e \in AggEnvs :
        /\ e.ports[8080] = "closed"
        /\ SampledEnvs(1) \cup SampledEnvs(2) = {e}
    /\ runs[1].response.status = "DOWN"
    /\ runs[2].response.status = "DOWN"
    /\ runs[1].response.checks["ports"].status = "DOWN"
    /\ runs[2].response.checks["resources"].status = "UP"

\* the status the check named n has in the environment e under the running
\* configuration (every port target open; memory and every disk path below
\* their thresholds)
StatusIn(n, e) ==
    IF n = "ports"
    THEN IF \A i \in 1..Len(cfg.ports.targets.items) :
                e.ports[cfg.ports.targets.items[i]] = "open"
         THEN "UP" ELSE "DOWN"
    ELSE IF /\ SamplePasses(e.memory, cfg.resources.memory.threshold_percent)
            /\ \A i \in 1..Len(cfg.resources.disk.paths) :
                  SamplePasses(e.disk[cfg.resources.disk.paths[i]],
                               cfg.resources.disk.threshold_percent)
         THEN "UP" ELSE "DOWN"

\* the environment the last invocation of the check named n sampled in the
\* request r
LastSample(r, n) ==
    LET at == {i \in 1..Len(runs[r].invoked) : runs[r].invoked[i].name = n}
        m  == CHOOSE i \in at : \A j \in at : j <= i
    IN runs[r].invoked[m].env

\* C24: the statuses a run reports depend only on the environment its own
\* checkers sampled: the overall status is UP exactly when every check it
\* invoked passes in the environment that invocation sampled, and every
\* entry has the status of its check in the environment its last invocation
\* sampled, whatever earlier runs reported.
C24_StatusesFollowSampledEnvironment ==
    \A r \in Requests :
        FrameDone(r) =>
            /\ DOMAIN runs[r].response.checks = InvokedNames(r)
            /\ (runs[r].response.status = "UP") <=>
                  \A i \in 1..Len(runs[r].invoked) :
                      StatusIn(runs[r].invoked[i].name, runs[r].invoked[i].env) = "UP"
            /\ \A n \in InvokedNames(r) :
                  runs[r].response.checks[n].status = StatusIn(n, LastSample(r, n))

\* one request sampled port 8080 closed and reported DOWN; the port listens
\* again and the other request, with the same names, reports UP
C24_Witness ==
    /\ FrameDone(1)
    /\ FrameDone(2)
    /\ runs[1].check_names = <<"ports">>
    /\ runs[2].check_names = <<"ports">>
    /\ Len(runs[1].invoked) = 1
    /\ Len(runs[2].invoked) = 1
    /\ runs[1].invoked[1].env.ports[8080] = "closed"
    /\ runs[1].response.status = "DOWN"
    /\ env.ports[8080] = "open"
    /\ runs[2].invoked[1].env = env
    /\ runs[2].response.status = "UP"
    /\ runs[2].response.checks["ports"].status = "UP"

\* the checker returned a result with status UP
OutcomeUp(o) == ~o.raised /\ o.result.status = "UP"

\* the last invocation of the check named n in the request r
LastInvocation(r, n) ==
    LET at == {i \in 1..Len(runs[r].invoked) : runs[r].invoked[i].name = n}
        m  == CHOOSE i \in at : \A j \in at : j <= i
    IN runs[r].invoked[m]

\* the request r is being served or was answered with a report
FrameRunning(r) == runs[r].pc = "loop" \/ FrameDone(r)

\* C25: requests served at the same time do not interfere: the registry and
\* the checkers' configuration stay as loaded, every invocation returns what
\* its checker computes from that configuration and the environment it
\* sampled, and the verdict, the results and the report of a request are
\* those of its own invocations.
C25_OverlappingRunsDoNotInterfere ==
    /\ cfg \in RunConfigs
    /\ \A r \in Requests :
        FrameRunning(r) =>
            /\ \A i \in 1..Len(runs[r].invoked) :
                  runs[r].invoked[i].outcome =
                      checker_check(cfg, runs[r].invoked[i].name,
                                    runs[r].invoked[i].env)
            /\ runs[r].all_healthy <=>
                  \A i \in 1..Len(runs[r].invoked) :
                      OutcomeUp(runs[r].invoked[i].outcome)
            /\ DOMAIN runs[r].results = InvokedNames(r)
            /\ \A n \in InvokedNames(r) :
                  /\ ~LastInvocation(r, n).outcome.raised
                  /\ runs[r].results[n] = to_dict(LastInvocation(r, n).outcome.result)
            /\ FrameDone(r) =>
                  /\ runs[r].response.checks = runs[r].results
                  /\ (runs[r].response.status = "UP") <=> runs[r].all_healthy
                  /\ (runs[r].status_code = 200) <=> runs[r].all_healthy

\* two requests are in the loop at the same time with the same names; the
\* first sampled port 8080 closed, the second sampled it open, and each
\* holds the verdict of its own invocation
C25_Witness ==
    /\ runs[1].pc = "loop"
    /\ runs[2].pc = "loop"
    /\ runs[1].check_names = <<"ports", "ports">>
    /\ runs[2].check_names = <<"ports", "ports">>
    /\ runs[1].idx = 2
    /\ runs[2].idx = 2
    /\ runs[1].invoked[1].env.ports[8080] = "closed"
    /\ runs[2].invoked[1].env.ports[8080] = "open"
    /\ ~runs[1].all_healthy
    /\ runs[2].all_healthy

====
